---- MODULE Spec2Model ----
(***************************************************************************)
(* Hoeffding tree of bsm/reason: Tree.Train / Tree.Predict / Tree.DumpTo,  *)
(* the split attempt, the pruning pass and the nominal value set, in the   *)
(* two Tree variants of the repository:                                    *)
(*   "ret"  = src/unnamed/part_000 (Train returns the Trace)               *)
(*   "chan" = src/classifiers/hoeffding/tree.go (Train publishes the Trace *)
(*            on a channel)                                                *)
(* Weights are integers (every instance has weight 1).  Merits, ranges and *)
(* the tie threshold are counted in units of 0.05.                         *)
(***************************************************************************)
EXTENDS Integers, Sequences, FiniteSets, TLC

\* ------------------------------------------------------------------ bounds
MaxTrain == 3
MaxDepth == 2
MaxTieWeight == 28
MaxConcTrain == 2

\* --------------------------------------------------------- program constants
TracesCap == 3

\* ------------------------------------------------------------- value domains
Impls == {"ret", "chan"}
Classes == {0, 1}
Levels == {"a", "b"}
XVals == {1, 2}
NoLevel == "none"
NoVal == 0
NaN == 0 - 1000
Branches == 0 .. (Cardinality(Levels) - 1)
Paths == UNION {[1 .. d -> Branches] : d \in 0 .. MaxDepth}
Root == << >>

\* ---------------------------------------------------- core.AttributeValues
NoIdx == 0 - 1
EmptyValues == [s \in Levels |-> NoIdx]
LenValues(v) == Cardinality({s \in Levels : v[s] # NoIdx})

\* NewAttributeValues(vals...): v.vi[val] = i for every position i
NewAttributeValues(vals) ==
  [s \in Levels |->
     IF \E i \in DOMAIN vals : vals[i] = s
     THEN (CHOOSE i \in DOMAIN vals : vals[i] = s /\ \A j \in DOMAIN vals : vals[j] = s => j <= i) - 1
     ELSE NoIdx]

\* (mutant) the insertion without the second look under the write lock
InsertIndexUnchecked(v, s) ==
  [n |-> LenValues(v), vi |-> [v EXCEPT ![s] = LenValues(v)]]

\* AttributeValues.IndexOf under v.mu.Lock(): look again, insert if absent
InsertIndex(v, s) ==
  IF v[s] # NoIdx
  THEN [n |-> v[s], vi |-> v]
  ELSE [n |-> LenValues(v), vi |-> [v EXCEPT ![s] = LenValues(v)]]

\* AttributeValues.IndexOf, run to completion by one caller
IndexOf(v, s) ==
  IF v[s] # NoIdx
  THEN [n |-> v[s], vi |-> v]
  ELSE [n |-> LenValues(v), vi |-> [v EXCEPT ![s] = LenValues(v)]]

\* AttributeValue.IsMissing / AttributeValue.Index
IsMissing(av) == av = NaN
Index(av) == IF IsMissing(av) THEN 0 - 1 ELSE av

\* Attribute.ValueOf for the numeric predictor "x": a number is kept,
\* anything else is missing
ValueOfNumeric(iv) == IF iv \in XVals THEN iv ELSE NaN

\* Attribute.ValueOf for the nominal predictor "o": a string is looked up
\* with IndexOf (which adds an unseen level), anything else is missing
ValueOfNominal(v, iv) ==
  IF iv \in Levels
  THEN LET r == IndexOf(v, iv) IN [val |-> r.n, vi |-> r.vi]
  ELSE [val |-> NaN, vi |-> v]

\* ------------------------------------------------------- ObservationStats
ZeroStats == [c \in Classes |-> 0]
TotalWeight(s) == s[0] + s[1]
IsSufficient(s) == s[0] > 0 /\ s[1] > 0
AddStats(s, t) == [c \in Classes |-> s[c] + t[c]]
Observe(s, c) == [s EXCEPT ![c] = @ + 1]

EmptyObs == [x |-> [v \in XVals |-> ZeroStats], o |-> [i \in Branches |-> ZeroStats]]

RECURSIVE SumStats(_, _)
SumStats(f, S) ==
  IF S = {} THEN ZeroStats
  ELSE LET e == CHOOSE e \in S : TRUE IN AddStats(f[e], SumStats(f, S \ {e}))

\* ------------------------------------------------------------------ nodes
NilNode ==
  [kind |-> "nil", stats |-> ZeroStats, obs |-> EmptyObs, wle |-> 0,
   inactive |-> FALSE, pred |-> "none", thr |-> 0, arity |-> 0]

newLeafNode(stats) ==
  [NilNode EXCEPT !.kind = "leaf", !.stats = stats]

IsLeaf(n) == n.kind = "leaf"
IsSplit(n) == n.kind = "split"

Deactivate(n) == [n EXCEPT !.inactive = TRUE, !.obs = EmptyObs]
\* (mutant) the evaluation mark lost with the flag
ActivateUnevaluated(n) == [n EXCEPT !.inactive = FALSE, !.wle = 0]
Activate(n) == [n EXCEPT !.inactive = FALSE]

\* leafNode.Learn: the target marginal always, the per-predictor observers
\* only while the leaf is active; a nominal value goes through ValueOf
Learn(n, v, inst) ==
  LET xv == ValueOfNumeric(inst.x)
      ov == IF n.inactive THEN [val |-> NaN, vi |-> v] ELSE ValueOfNominal(v, inst.o)
      ox == IF n.inactive \/ IsMissing(xv) THEN n.obs.x
            ELSE [n.obs.x EXCEPT ![xv] = Observe(@, inst.cls)]
      oo == IF n.inactive \/ IsMissing(ov.val) THEN n.obs.o
            ELSE [n.obs.o EXCEPT ![ov.val] = Observe(@, inst.cls)]
  IN [leaf |-> [n EXCEPT !.stats = Observe(@, inst.cls), !.obs = [x |-> ox, o |-> oo]],
      vi |-> ov.vi]

\* ByteSize of one node and of the whole tree (the sum over its nodes)
LeafBytes == 1
ObserverBytes == 2
SplitBytes == 1
NodeByteSize(n) ==
  IF IsLeaf(n) THEN (IF n.inactive THEN LeafBytes ELSE LeafBytes + ObserverBytes)
  ELSE IF IsSplit(n) THEN SplitBytes
  ELSE 0

RECURSIVE SumBytes(_, _)
SumBytes(tr, S) ==
  IF S = {} THEN 0
  ELSE LET p == CHOOSE p \in S : TRUE IN NodeByteSize(tr[p]) + SumBytes(tr, S \ {p})
ByteSize(tr) == SumBytes(tr, Paths)

LeafPaths(tr) == {p \in Paths : IsLeaf(tr[p])}

\* TreeInfo.NumInactiveLeaves, TreeInfo.NumActiveLeaves
NumInactiveLeaves(tr) == Cardinality({p \in LeafPaths(tr) : tr[p].inactive})
NumActiveLeaves(tr) == Cardinality({p \in LeafPaths(tr) : ~tr[p].inactive})

\* ------------------------------------------------------- split conditions
\* (mutant) the comparison with the split value made inclusive
BranchNumericInclusive(n, inst) ==
  LET av == ValueOfNumeric(inst.x) IN
  IF IsMissing(av) THEN 0 - 1
  ELSE IF av >= n.thr THEN 1 ELSE 0

\* numericBinarySplitCondition.Branch
BranchNumeric(n, inst) ==
  LET av == ValueOfNumeric(inst.x) IN
  IF IsMissing(av) THEN 0 - 1
  ELSE IF av > n.thr THEN 1 ELSE 0

\* nominalMultiwaySplitCondition.Branch
BranchNominal(v, inst) ==
  LET r == ValueOfNominal(v, inst.o) IN [index |-> Index(r.val), vi |-> r.vi]

Branch(n, v, inst) ==
  IF n.pred = "o" THEN BranchNominal(v, inst)
  ELSE [index |-> BranchNumeric(n, inst), vi |-> v]

\* treeNode.Filter: (node, parent, parentIndex) plus the value set as the
\* Branch calls on the way left it
RECURSIVE Filter(_, _, _, _, _, _, _)
Filter(tr, v, inst, p, hasParent, parent, idx) ==
  IF IsLeaf(tr[p])
  THEN [isNil |-> FALSE, node |-> p, hasParent |-> hasParent, parent |-> parent,
        index |-> idx, vi |-> v]
  ELSE LET b == Branch(tr[p], v, inst) IN
       IF b.index < 0
       THEN [isNil |-> FALSE, node |-> p, hasParent |-> hasParent, parent |-> parent,
             index |-> idx, vi |-> b.vi]
       ELSE LET c == Append(p, b.index) IN
            IF c \notin Paths \/ tr[c].kind = "nil"
            THEN [isNil |-> TRUE, node |-> c, hasParent |-> TRUE, parent |-> p,
                  index |-> b.index, vi |-> b.vi]
            ELSE Filter(tr, b.vi, inst, c, TRUE, p, b.index)

\* ------------------------------------------------------------------ Config
LnDen == 8
InfTarget == 1000
Range2 == 20
MeritVals == {0, 2, 10}

\* ------------------------------------------------------ split suggestions
NullSuggestion == [pred |-> "null", thr |-> 0, merit |-> 0, range |-> 0]
Merit(s) == s.merit

HasObs(f, S) == \E e \in S : TotalWeight(f[e]) > 0

\* leafNode.BestSplits: one suggestion per predictor the leaf has observed
\* plus the null suggestion, ranked by descending merit (ties in any order)
Suggestions(pred, thrs) == [pred : {pred}, thr : thrs, merit : MeritVals, range : {Range2}]
Candidates(n) ==
  {a \cup b :
     a \in (IF HasObs(n.obs.x, XVals) THEN {{s} : s \in Suggestions("x", XVals)} ELSE {{}}),
     b \in (IF HasObs(n.obs.o, Branches) THEN {{s} : s \in Suggestions("o", {0})} ELSE {{}})}

Rank(S) ==
  {q \in [1 .. Cardinality(S) -> S] :
     /\ \A i, j \in DOMAIN q : i # j => q[i] # q[j]
     /\ \A i, j \in DOMAIN q : i < j => Merit(q[i]) >= Merit(q[j])}

BestSplits(n) == UNION {Rank(S \cup {NullSuggestion}) : S \in Candidates(n)}

\* SplitSuggestion.PostStats: the statistics of each branch of the condition;
\* the nil suggestion has none (a nil map)
PostStats(n, s) ==
  IF s = NullSuggestion
  THEN [i \in {} |-> ZeroStats]
  ELSE IF s.pred = "x"
  THEN [b \in {0, 1} |->
          SumStats(n.obs.x, {v \in XVals : IF b = 0 THEN v <= s.thr ELSE v > s.thr})]
  ELSE [i \in {j \in Branches : TotalWeight(n.obs.o[j]) > 0} |-> n.obs.o[i]]

\* newSplitNode installed at path p: the split node with the pre-split
\* statistics as fallback and one fresh leaf per branch of the post-statistics
newSplitNode(tr, p, n, s) ==
  LET post == PostStats(n, s) IN
  [q \in Paths |->
     IF q = p
     THEN [NilNode EXCEPT !.kind = "split", !.stats = n.stats, !.pred = s.pred,
                          !.thr = s.thr, !.arity = Cardinality(DOMAIN post)]
     ELSE IF Len(q) = Len(p) + 1 /\ SubSeq(q, 1, Len(p)) = p /\ q[Len(q)] \in DOMAIN post
     THEN newLeafNode(post[q[Len(q)]])
     ELSE tr[q]]

\* ------------------------------------------------------------------ Trace
NilTrace ==
  [isNil |-> TRUE, MeritGain |-> 0, PossibleSplits |-> << >>,
   hasBound |-> FALSE, BoundNum |-> 0, BoundDen |-> 1, Split |-> FALSE]
NewTrace == [NilTrace EXCEPT !.isNil = FALSE]

TracePossibleSplits(splits) ==
  LET keep == {i \in DOMAIN splits : splits[i].pred # "null"}
      pos(k) == CHOOSE i \in keep : Cardinality({j \in keep : j < i}) = k - 1
  IN [k \in 1 .. Cardinality(keep) |-> <<splits[pos(k)].pred, Merit(splits[pos(k)])>>]

\* hbound = sqrt(range^2 * ln(1/SplitConfidence) / (2 * weight)), kept as
\* the fraction hbound^2 = BoundNum / BoundDen
BoundNum(conf, s) == s.range * s.range * conf.SplitConfLn
BoundDen(weight) == 2 * weight * LnDen

\* meritGain > hbound (for meritGain > 0)
GainAboveBound(conf, gain, s, weight) ==
  gain * gain * BoundDen(weight) > BoundNum(conf, s)
\* hbound < TieThreshold
BoundBelowTie(conf, s, weight) ==
  /\ conf.TieThreshold > 0
  /\ BoundNum(conf, s) < conf.TieThreshold * conf.TieThreshold * BoundDen(weight)

MeritGain(splits) ==
  IF Len(splits) > 1 THEN Merit(splits[1]) - Merit(splits[2]) ELSE Merit(splits[1])

\* (mutant) the split attempt without the "no merit gain" return
attemptSplitNoGainTest(conf, leaf, weight, trace, splits) ==
  IF ~IsSufficient(leaf.stats) \/ leaf.inactive
  THEN [split |-> FALSE, best |-> NullSuggestion, trace |-> NilTrace, reached |-> FALSE]
  ELSE [split |-> GainAboveBound(conf, MeritGain(splits), splits[1], weight)
                  \/ BoundBelowTie(conf, splits[1], weight),
        best |-> splits[1], trace |-> NilTrace, reached |-> TRUE]

\* (mutant) the leaf's statistics and activity are not looked at
attemptSplitAnyLeaf(conf, leaf, weight, trace, splits) ==
  [split |-> MeritGain(splits) > 0
             /\ (GainAboveBound(conf, MeritGain(splits), splits[1], weight)
                 \/ BoundBelowTie(conf, splits[1], weight)),
   best |-> splits[1], trace |-> NilTrace, reached |-> TRUE]

\* (mutant) the tie threshold is never consulted
attemptSplitBoundOnly(conf, leaf, weight, trace, splits) ==
  IF ~IsSufficient(leaf.stats) \/ leaf.inactive
  THEN [split |-> FALSE, best |-> NullSuggestion, trace |-> NilTrace, reached |-> FALSE]
  ELSE [split |-> MeritGain(splits) > 0
                  /\ GainAboveBound(conf, MeritGain(splits), splits[1], weight),
        best |-> splits[1], trace |-> NilTrace, reached |-> TRUE]

\* Tree.attemptSplit of part_000: every return hands back a nil Trace
attemptSplit(conf, leaf, weight, trace, splits) ==
  IF ~IsSufficient(leaf.stats) \/ leaf.inactive
  THEN [split |-> FALSE, best |-> NullSuggestion, trace |-> NilTrace, reached |-> FALSE]
  ELSE
    LET bestSplit == splits[1]
        meritGain == MeritGain(splits)
    IN IF meritGain <= 0
       THEN [split |-> FALSE, best |-> bestSplit, trace |-> NilTrace, reached |-> TRUE]
       ELSE IF GainAboveBound(conf, meritGain, bestSplit, weight)
               \/ BoundBelowTie(conf, bestSplit, weight)
       THEN [split |-> TRUE, best |-> bestSplit, trace |-> NilTrace, reached |-> TRUE]
       ELSE [split |-> FALSE, best |-> bestSplit, trace |-> NilTrace, reached |-> TRUE]

\* Tree.attemptSplit of tree.go: the Trace built so far is returned
attemptSplitChan(conf, leaf, weight, trace, splits) ==
  IF ~IsSufficient(leaf.stats) \/ leaf.inactive
  THEN [split |-> FALSE, best |-> NullSuggestion, trace |-> trace, reached |-> FALSE]
  ELSE
    LET bestSplit == splits[1]
        meritGain == MeritGain(splits)
        t1 == IF conf.EnableTracing THEN NewTrace ELSE trace
        t2 == IF t1.isNil THEN t1
              ELSE [t1 EXCEPT !.MeritGain = meritGain,
                              !.PossibleSplits = TracePossibleSplits(splits)]
        t3 == IF t2.isNil THEN t2
              ELSE [t2 EXCEPT !.hasBound = TRUE, !.BoundNum = BoundNum(conf, bestSplit),
                              !.BoundDen = BoundDen(weight)]
    IN IF meritGain <= 0
       THEN [split |-> FALSE, best |-> bestSplit, trace |-> t2, reached |-> TRUE]
       ELSE IF GainAboveBound(conf, meritGain, bestSplit, weight)
               \/ BoundBelowTie(conf, bestSplit, weight)
       THEN [split |-> TRUE, best |-> bestSplit, trace |-> t3, reached |-> TRUE]
       ELSE [split |-> FALSE, best |-> bestSplit, trace |-> t3, reached |-> TRUE]

\* ---------------------------------------------------------------- pruning
\* the leaves found by FindLeaves in the order sort.Sort leaves them: the
\* promise of a leaf is not part of this model, so any order can come out
Orders(S) ==
  {q \in [1 .. Cardinality(S) -> S] : \A i, j \in DOMAIN q : i # j => q[i] # q[j]}

\* part_000 prune, first loop: deactivate active leaves until the running
\* size is at most the target; piv is the (0-based) index of the last one
RECURSIVE pruneDeactivate(_, _, _, _, _)
pruneDeactivate(tr, byteSize, leaves, i, target) ==
  IF i > Len(leaves) THEN [tree |-> tr, byteSize |-> byteSize, piv |-> Len(leaves)]
  ELSE IF tr[leaves[i]].inactive THEN pruneDeactivate(tr, byteSize, leaves, i + 1, target)
  ELSE LET size == byteSize - NodeByteSize(tr[leaves[i]])
           tr2 == [tr EXCEPT ![leaves[i]] = Deactivate(@)]
       IN IF size <= target THEN [tree |-> tr2, byteSize |-> size, piv |-> i - 1]
          ELSE pruneDeactivate(tr2, size, leaves, i + 1, target)

\* part_000 prune, second loop: activate every inactive leaf of leaves[piv:]
RECURSIVE pruneReactivate(_, _, _, _)
pruneReactivate(tr, byteSize, leaves, i) ==
  IF i > Len(leaves) THEN [tree |-> tr, byteSize |-> byteSize]
  ELSE IF tr[leaves[i]].inactive
  THEN LET tr2 == [tr EXCEPT ![leaves[i]] = Activate(@)]
       IN pruneReactivate(tr2, byteSize + NodeByteSize(tr2[leaves[i]]), leaves, i + 1)
  ELSE pruneReactivate(tr, byteSize, leaves, i + 1)

\* (mutant) the third loop left out
pruneTailSkipped(tr, byteSize, leaves, i, target) == [tree |-> tr, byteSize |-> byteSize]

\* part_000 prune, third loop: deactivate leaves[piv:] in order until the
\* running size is at most the target
RECURSIVE pruneTail(_, _, _, _, _)
pruneTail(tr, byteSize, leaves, i, target) ==
  IF i > Len(leaves) THEN [tree |-> tr, byteSize |-> byteSize]
  ELSE LET size == byteSize - NodeByteSize(tr[leaves[i]])
           tr2 == [tr EXCEPT ![leaves[i]] = Deactivate(@)]
       IN IF size <= target THEN [tree |-> tr2, byteSize |-> size]
          ELSE pruneTail(tr2, size, leaves, i + 1, target)

\* (mutant) the second loop ranges over t.leaves instead of t.leaves[piv:]
pruneReactivatingAll(conf, tr, leaves) ==
  IF ByteSize(tr) <= conf.PruneMemTarget
  THEN [tree |-> tr, ran |-> FALSE, byteSize |-> ByteSize(tr)]
  ELSE LET a == pruneDeactivate(tr, ByteSize(tr), leaves, 1, conf.PruneMemTarget)
           b == pruneReactivate(a.tree, a.byteSize, leaves, 1)
           c == pruneTail(b.tree, b.byteSize, leaves, a.piv + 1, conf.PruneMemTarget)
       IN [tree |-> c.tree, ran |-> TRUE, byteSize |-> c.byteSize]

\* Tree.prune of part_000
prune(conf, tr, leaves) ==
  IF ByteSize(tr) <= conf.PruneMemTarget
  THEN [tree |-> tr, ran |-> FALSE, byteSize |-> ByteSize(tr)]
  ELSE LET a == pruneDeactivate(tr, ByteSize(tr), leaves, 1, conf.PruneMemTarget)
           b == pruneReactivate(a.tree, a.byteSize, leaves, a.piv + 1)
           c == pruneTail(b.tree, b.byteSize, leaves, a.piv + 1, conf.PruneMemTarget)
       IN [tree |-> c.tree, ran |-> TRUE, byteSize |-> c.byteSize]

\* tree.go prune, second loop: activate every leaf of leaves[piv:]
RECURSIVE pruneActivateChan(_, _, _)
pruneActivateChan(tr, leaves, i) ==
  IF i > Len(leaves) THEN tr
  ELSE pruneActivateChan([tr EXCEPT ![leaves[i]] = Activate(@)], leaves, i + 1)

\* Tree.prune of tree.go
pruneChan(conf, tr, byteSize, leaves) ==
  LET a == pruneDeactivate(tr, byteSize, leaves, 1, conf.PruneMemTarget)
  IN [tree |-> pruneActivateChan(a.tree, leaves, a.piv + 1), ran |-> TRUE,
      byteSize |-> a.byteSize]

\* ------------------------------------------------------------------ Train
\* the instance's value of the predictor a split node tests is missing
\* (Attribute.ValueOf gives MissingValue for a value of no known type)
MissingAt(n, inst) == IF n.pred = "o" THEN inst.o \notin Levels ELSE inst.x \notin XVals

\* the split nodes the instance passes on its way down, each reached through
\* the branch taken at the split above it; and whether the value is missing
\* at one of them
OnPathOf(tr, v, inst) ==
  {p \in Paths :
     /\ IsSplit(tr[p])
     /\ \A k \in 1 .. Len(p) :
          /\ IsSplit(tr[SubSeq(p, 1, k - 1)])
          /\ ~MissingAt(tr[SubSeq(p, 1, k - 1)], inst)
          /\ Branch(tr[SubSeq(p, 1, k - 1)], v, inst).index = p[k]}
UnknownBranchOnPath(tr, v, inst) == \E p \in OnPathOf(tr, v, inst) : MissingAt(tr[p], inst)

\* (mutant) the node the instance stopped at learns whatever it is
LandAnyNode(tr, v, inst) ==
  LET f == Filter(tr, v, inst, Root, FALSE, Root, 0 - 1)
      tr1 == IF f.isNil THEN [tr EXCEPT ![f.node] = newLeafNode(ZeroStats)] ELSE tr
      l == Learn(tr1[f.node], f.vi, inst)
  IN [tree |-> [tr1 EXCEPT ![f.node] = l.leaf], vi |-> l.vi, isLeaf |-> TRUE,
      node |-> f.node, hasParent |-> f.hasParent, parent |-> f.parent,
      index |-> f.index, fresh |-> f.isNil]

\* Train up to leaf.Learn: filter the instance, materialise a leaf in an
\* empty child slot, let the leaf learn
Land(tr, v, inst) ==
  LET f == Filter(tr, v, inst, Root, FALSE, Root, 0 - 1)
      tr1 == IF f.isNil THEN [tr EXCEPT ![f.node] = newLeafNode(ZeroStats)] ELSE tr
  IN IF IsLeaf(tr1[f.node])
     THEN LET l == Learn(tr1[f.node], f.vi, inst)
          IN [tree |-> [tr1 EXCEPT ![f.node] = l.leaf], vi |-> l.vi, isLeaf |-> TRUE,
              node |-> f.node, hasParent |-> f.hasParent, parent |-> f.parent,
      index |-> f.index, fresh |-> f.isNil]
     ELSE [tree |-> tr1, vi |-> f.vi, isLeaf |-> FALSE, node |-> f.node,
           hasParent |-> f.hasParent, parent |-> f.parent, index |-> f.index,
           fresh |-> f.isNil]

\* does the pruning step of this Train call sort the leaves
PruneDue(im, conf, cyc, tr) ==
  IF im = "ret"
  THEN conf.PrunePeriod > 0 /\ (cyc + 1) % conf.PrunePeriod = 0
       /\ ByteSize(tr) > conf.PruneMemTarget
  ELSE conf.PrunePeriod # 0 /\ (cyc + 1) % conf.PrunePeriod = 0
       /\ ByteSize(tr) >= conf.PruneMemTarget * 2

\* the pruning step of Train in part_000
PruneStep(conf, cyc, tr, leaves) ==
  IF conf.PrunePeriod > 0
  THEN IF (cyc + 1) % conf.PrunePeriod = 0
       THEN LET r == prune(conf, tr, leaves)
            IN [tree |-> r.tree, cycles |-> cyc + 1, due |-> TRUE, called |-> TRUE,
                ran |-> r.ran, byteSize |-> r.byteSize, panic |-> FALSE]
       ELSE [tree |-> tr, cycles |-> cyc + 1, due |-> FALSE, called |-> FALSE,
             ran |-> FALSE, byteSize |-> 0, panic |-> FALSE]
  ELSE [tree |-> tr, cycles |-> cyc, due |-> FALSE, called |-> FALSE, ran |-> FALSE,
        byteSize |-> 0, panic |-> FALSE]

\* the pruning step of Train in tree.go: the remainder is taken whatever
\* PrunePeriod is, and an integer division by zero panics
PruneStepChan(conf, cyc, tr, leaves) ==
  IF conf.PrunePeriod = 0
  THEN [tree |-> tr, cycles |-> cyc + 1, due |-> FALSE, called |-> FALSE, ran |-> FALSE,
        byteSize |-> 0, panic |-> TRUE]
  ELSE IF (cyc + 1) % conf.PrunePeriod = 0
  THEN IF ByteSize(tr) >= conf.PruneMemTarget * 2
       THEN LET r == pruneChan(conf, tr, ByteSize(tr), leaves)
            IN [tree |-> r.tree, cycles |-> cyc + 1, due |-> TRUE, called |-> TRUE,
                ran |-> TRUE, byteSize |-> r.byteSize, panic |-> FALSE]
       ELSE [tree |-> tr, cycles |-> cyc + 1, due |-> TRUE, called |-> FALSE,
             ran |-> FALSE, byteSize |-> 0, panic |-> FALSE]
  ELSE [tree |-> tr, cycles |-> cyc + 1, due |-> FALSE, called |-> FALSE, ran |-> FALSE,
        byteSize |-> 0, panic |-> FALSE]

\* (mutants) the operands of the update swapped; the weight at which the
\* next evaluation is due stored instead of the weight of this one
NextWeightOnLastEvalSwapped(weight, wle) == wle - weight
NextWeightOnLastEvalDue(weight, wle) == weight + 1

\* leaf.WeightOnLastEval after the split attempt, part_000
NextWeightOnLastEval(weight, wle) == IF weight > wle THEN weight ELSE wle
\* leaf.SetWeightOnLastEval(weight), tree.go
NextWeightOnLastEvalChan(weight, wle) == weight

\* (mutant) the split always assigned to the root pointer
TrainEvalAtRoot(conf, tr, node, splits) ==
  LET leaf == tr[node]
      weight == TotalWeight(leaf.stats)
  IN IF weight - leaf.wle < conf.GracePeriod
     THEN [tree |-> tr, trace |-> NilTrace, evaluated |-> FALSE, reached |-> FALSE,
           promoted |-> FALSE]
     ELSE LET a == attemptSplit(conf, leaf, weight, NilTrace, splits)
          IN [tree |-> IF a.split THEN newSplitNode(tr, Root, leaf, a.best)
                       ELSE [tr EXCEPT ![node].wle = NextWeightOnLastEval(weight, @)],
              trace |-> a.trace, evaluated |-> TRUE, reached |-> a.reached,
              promoted |-> a.split]

\* (mutant) the split attempt made whatever weight has been seen
TrainEvalNoGrace(conf, tr, node, splits) ==
  LET leaf == tr[node]
      weight == TotalWeight(leaf.stats)
      a == attemptSplit(conf, leaf, weight, NilTrace, splits)
  IN [tree |-> IF a.split THEN newSplitNode(tr, node, leaf, a.best)
               ELSE [tr EXCEPT ![node].wle = NextWeightOnLastEval(weight, @)],
      trace |-> a.trace, evaluated |-> TRUE, reached |-> a.reached,
      promoted |-> a.split]

\* Train of part_000 from the grace-period test to the return
TrainEval(conf, tr, node, splits) ==
  LET leaf == tr[node]
      weight == TotalWeight(leaf.stats)
  IN IF weight - leaf.wle < conf.GracePeriod
     THEN [tree |-> tr, trace |-> NilTrace, evaluated |-> FALSE, reached |-> FALSE,
           promoted |-> FALSE]
     ELSE LET a == attemptSplit(conf, leaf, weight, NilTrace, splits)
          IN [tree |-> IF a.split THEN newSplitNode(tr, node, leaf, a.best)
                       ELSE [tr EXCEPT ![node].wle = NextWeightOnLastEval(weight, @)],
              trace |-> a.trace, evaluated |-> TRUE, reached |-> a.reached,
              promoted |-> a.split]

\* Train of tree.go from the grace-period test to the return
TrainEvalChan(conf, tr, node, splits) ==
  LET leaf == tr[node]
      weight == TotalWeight(leaf.stats)
  IN IF weight - leaf.wle < conf.GracePeriod
     THEN [tree |-> tr, trace |-> NilTrace, evaluated |-> FALSE, reached |-> FALSE,
           promoted |-> FALSE]
     ELSE LET a == attemptSplitChan(conf, leaf, weight, NilTrace, splits)
          IN [tree |-> IF a.split THEN newSplitNode(tr, node, leaf, a.best)
                       ELSE [tr EXCEPT ![node].wle = NextWeightOnLastEvalChan(weight, @)],
              trace |-> IF a.split /\ ~a.trace.isNil THEN [a.trace EXCEPT !.Split = TRUE]
                        ELSE a.trace,
              evaluated |-> TRUE, reached |-> a.reached, promoted |-> a.split]

\* the inputs of one Train call that the model draws: the sorted leaves
\* when the pruning pass runs, the ranked suggestions of the landed leaf
\* when the grace period has passed and a split attempt is made
LeafOrders(im, conf, cyc, tr) ==
  IF PruneDue(im, conf, cyc, tr) THEN Orders(LeafPaths(tr)) ELSE {<< >>}

Rankings(tied, conf, tr, node) ==
  LET leaf == tr[node] IN
  IF TotalWeight(leaf.stats) - leaf.wle >= conf.GracePeriod
  THEN {q \in BestSplits(leaf) : tied => (Len(q) > 1 /\ Merit(q[1]) = Merit(q[2]))}
  ELSE {<<NullSuggestion>>}

\* ---------------------------------------------------------------- Predict
\* Tree.Predict between lock and unlock: the prediction (the votes of the
\* node the instance lands on) and the value set as Filter left it
PredictBody(tr, v, inst) ==
  LET f == Filter(tr, v, inst, Root, FALSE, Root, 0 - 1)
      node == IF f.isNil THEN f.parent ELSE f.node
  IN [pred |-> tr[node].stats, vi |-> f.vi]

\* -------------------------------------------------------- core.Prediction
MaxPredLen == 3
MaxVotes == 2
PredictedValues == [value : Classes, votes : 0 .. MaxVotes]
MissingPredicted == [value |-> NaN, votes |-> 0]
NoTop == [op |-> "none", value |-> NaN, votes |-> 0]

\* Prediction.Less
PredictionLess(p, i, j) == p[i].votes < p[j].votes

\* sort.IsSorted(sort.Reverse(p)): no element is Less than its successor
IsSortedReverse(p) == \A i \in 2 .. Len(p) : ~PredictionLess(p, i - 1, i)

\* Prediction.Rank: sort.Sort(sort.Reverse(p)), which is not stable: any
\* arrangement of the same elements that is sorted can come out
PredictionRank(p) ==
  {q \in [1 .. Len(p) -> {p[i] : i \in 1 .. Len(p)}] :
     /\ \A e \in {p[i] : i \in 1 .. Len(p)} :
          Cardinality({i \in 1 .. Len(p) : q[i] = e}) = Cardinality({i \in 1 .. Len(p) : p[i] = e})
     /\ IsSortedReverse(q)}

\* (mutant) the first element returned without a look at the order
PredictionTopUnranked(p, ranked) ==
  IF Len(p) = 0 THEN [p |-> p, top |-> MissingPredicted] ELSE [p |-> p, top |-> p[1]]

\* Prediction.Top; ranked is what p.Rank() leaves if it is called
PredictionTop(p, ranked) ==
  IF Len(p) = 0 THEN [p |-> p, top |-> MissingPredicted]
  ELSE IF ~IsSortedReverse(p) THEN [p |-> ranked, top |-> ranked[1]]
  ELSE [p |-> p, top |-> p[1]]

\* ------------------------------------------------------------ persistence
\* the tags the encodable types are registered with
TreeTag == 7750
AttributeTag == 7729
ValuesTag == 7730
NominalTag == 7743
NumericTag == 7744

Predictors == {"x", "o"}
KindOf(name) == IF name = "o" THEN "nominal" ELSE "numeric"
NoValues == "nil"
NoDump == << >>
NotLoaded == [called |-> FALSE]

\* (mutant) the index-to-name slice written instead of the map; IndexOf
\* empties that slice on every insertion
EncodeValuesStale(v) == [tag |-> ValuesTag, vi |-> EmptyValues]

\* AttributeValues.EncodeTo: the name-to-index map
EncodeValues(v) == [tag |-> ValuesTag, vi |-> v]

\* Attribute.EncodeTo: Name, Kind, Values (nil for a numeric attribute)
EncodeAttribute(name, v) ==
  <<AttributeTag, name, KindOf(name), IF name = "o" THEN EncodeValues(v) ELSE NoValues>>

\* the model: the number of predictors, then every predictor in order
EncodeModel(names, v) ==
  <<Len(names)>> \o
  (IF Len(names) > 0 THEN EncodeAttribute(names[1], v) ELSE << >>) \o
  (IF Len(names) > 1 THEN EncodeAttribute(names[2], v) ELSE << >>)

\* nominalMultiwaySplitCondition.EncodeTo / numericBinarySplitCondition.EncodeTo
EncodeCondition(n) ==
  IF n.pred = "o" THEN <<NominalTag, n.pred>> ELSE <<NumericTag, n.pred, n.thr>>

ChildrenOf(tr, p) ==
  {i \in Branches : Append(p, i) \in Paths /\ tr[Append(p, i)].kind # "nil"}

\* the node at path p: a leaf with its fields, or a split node with its
\* condition, its statistics and its children by branch index
RECURSIVE EncodeNode(_, _)
RECURSIVE EncodeChildren(_, _, _)
EncodeNode(tr, p) ==
  IF IsLeaf(tr[p])
  THEN <<"leaf", tr[p].stats, tr[p].wle, tr[p].inactive, tr[p].obs>>
  ELSE <<"split">> \o EncodeCondition(tr[p])
       \o <<tr[p].stats, Cardinality(ChildrenOf(tr, p))>>
       \o EncodeChildren(tr, p, ChildrenOf(tr, p))
EncodeChildren(tr, p, S) ==
  IF S = {} THEN << >>
  ELSE LET i == CHOOSE i \in S : \A j \in S : i <= j
       IN <<i>> \o EncodeNode(tr, Append(p, i)) \o EncodeChildren(tr, p, S \ {i})

\* Tree.EncodeTo: enc.Encode(t.model, t.root)
EncodeTo(tr, v) == <<TreeTag>> \o EncodeModel(<<"x", "o">>, v) \o EncodeNode(tr, Root)

\* AttributeValues.DecodeFrom: dec.Decode(&v.vi)
DecodeValues(tok) == tok.vi

\* the model of a stream: its predictors by name, the value set of the
\* nominal one, and the position of the first token after the model
DecodeModel(st) ==
  LET n == st[2]
      at(k) == 3 + 4 * (k - 1)
      named(a) == {k \in 1 .. n : st[at(k) + 1] = a}
  IN [preds |-> {st[at(k) + 1] : k \in 1 .. n},
      vi |-> IF named("o") = {} THEN EmptyValues
             ELSE DecodeValues(st[at(CHOOSE k \in named("o") : TRUE) + 3]),
      pos |-> 3 + 4 * n]

\* nominalMultiwaySplitCondition.DecodeFrom / numericBinarySplitCondition.DecodeFrom:
\* c.Attribute = model.Predictor(name), whatever the lookup gives; the
\* numeric condition then decodes its split value
DecodeCondition(st, pos, preds) ==
  IF st[pos] = NominalTag
  THEN [err |-> FALSE, pred |-> st[pos + 1], thr |-> 0, pos |-> pos + 2,
        resolved |-> st[pos + 1] \in preds]
  ELSE IF st[pos] = NumericTag
  THEN [err |-> FALSE, pred |-> st[pos + 1], thr |-> st[pos + 2], pos |-> pos + 3,
        resolved |-> st[pos + 1] \in preds]
  ELSE [err |-> TRUE, pred |-> "none", thr |-> 0, pos |-> pos, resolved |-> FALSE]

\* the node that starts at pos, put at path p; un collects the split nodes
\* whose condition has no attribute
RECURSIVE DecodeNode(_, _, _, _, _, _)
RECURSIVE DecodeChildren(_, _, _, _, _, _, _)
DecodeNode(st, pos, p, tr, preds, un) ==
  IF pos > Len(st) \/ p \notin Paths
  THEN [err |-> TRUE, tree |-> tr, pos |-> pos, un |-> un]
  ELSE IF st[pos] = "leaf"
  THEN [err |-> pos + 4 > Len(st),
        tree |-> IF pos + 4 > Len(st) THEN tr
                 ELSE [tr EXCEPT ![p] = [NilNode EXCEPT !.kind = "leaf",
                                            !.stats = st[pos + 1], !.wle = st[pos + 2],
                                            !.inactive = st[pos + 3], !.obs = st[pos + 4]]],
        pos |-> pos + 5, un |-> un]
  ELSE IF st[pos] = "split"
  THEN LET c == DecodeCondition(st, pos + 1, preds) IN
       IF c.err THEN [err |-> TRUE, tree |-> tr, pos |-> pos, un |-> un]
       ELSE DecodeChildren(st, c.pos + 2, p,
              [tr EXCEPT ![p] = [NilNode EXCEPT !.kind = "split", !.stats = st[c.pos],
                                    !.pred = c.pred, !.thr = c.thr, !.arity = st[c.pos + 1]]],
              st[c.pos + 1], preds, IF c.resolved THEN un ELSE un \cup {p})
  ELSE [err |-> TRUE, tree |-> tr, pos |-> pos, un |-> un]
DecodeChildren(st, pos, p, tr, k, preds, un) ==
  IF k = 0 THEN [err |-> FALSE, tree |-> tr, pos |-> pos, un |-> un]
  ELSE IF pos > Len(st) THEN [err |-> TRUE, tree |-> tr, pos |-> pos, un |-> un]
  ELSE LET r == DecodeNode(st, pos + 1, Append(p, st[pos]), tr, preds, un)
       IN IF r.err THEN r ELSE DecodeChildren(st, r.pos, p, r.tree, k - 1, preds, r.un)

\* a *Config as the caller fills it in
Config(g, pp, pt, tr, tie) ==
  [GracePeriod |-> g, PrunePeriod |-> pp, PruneMemTarget |-> pt, EnableTracing |-> tr,
   TieThreshold |-> tie, SplitConfLn |-> 1]

\* new(Config): the Config New and SetConfig make for a nil argument
ZeroConfig == Config(0, 0, 0, FALSE, 0)

\* the period Config.norm puts in place of an unset (zero) PrunePeriod. In
\* part_000 zero is the default and stays. The norm of tree.go replaces it:
\* the package's example trains a tree built with PrunePeriod unset, and
\* Train of tree.go divides by the period; which period it fills is not
\* known, so any of a few can come out
UnsetPrunePeriods(im) == IF im = "ret" THEN {0} ELSE {1, 2}

\* Config.norm: the fields left unset (zero) get their defaults: GracePeriod
\* 200, TieThreshold 0.05 (1 in the unit of the merits), PruneMemTarget
\* unlimited
norm(c, period) ==
  [c EXCEPT !.GracePeriod = IF @ <= 0 THEN 200 ELSE @,
            !.TieThreshold = IF @ <= 0 THEN 1 ELSE @,
            !.PruneMemTarget = IF @ <= 0 THEN InfTarget ELSE @,
            !.PrunePeriod = IF @ = 0 THEN period ELSE @]

\* what SetConfig(conf) stores in t.conf: nil stands for new(Config)
SetConfigOf(isNil, c, period) == norm(IF isNil THEN ZeroConfig ELSE c, period)

\* Load: decode the tree (Tree.DecodeFrom: the model, then the root), return
\* (nil, err) on a decode error, else t.SetConfig(conf) (nil stands for
\* new(Config), norm fills the defaults) and return the tree
LoadFrom(st, isNil, c) ==
  IF Len(st) < 2 \/ st[1] # TreeTag
  THEN [called |-> TRUE, isNil |-> TRUE, err |-> TRUE]
  ELSE LET m == DecodeModel(st)
           r == DecodeNode(st, m.pos, Root, [p \in Paths |-> NilNode], m.preds, {})
       IN IF r.err THEN [called |-> TRUE, isNil |-> TRUE, err |-> TRUE]
          ELSE [called |-> TRUE, isNil |-> FALSE, err |-> FALSE,
                conf |-> SetConfigOf(isNil, c, 0),
                preds |-> m.preds, vi |-> m.vi, root |-> r.tree, unresolved |-> r.un]

\* a stream as EncodeTo wrote it, but for a model without predictor a
WithoutPredictor(st, a) ==
  LET m == DecodeModel(st)
      names == IF a = "x" THEN <<"o">> ELSE <<"x">>
  IN <<TreeTag>> \o EncodeModel(names, m.vi) \o SubSeq(st, m.pos, Len(st))

\* ------------------------------------------------------------------ state
VARIABLES
  impl,      \* which Tree variant this run is about
  conf,      \* t.conf
  asked,     \* the *Config handed to New or SetConfig, as the caller wrote it
  tree,      \* t.root: the node at every path ("nil" where there is none)
  vi,        \* model: the value set of the nominal predictor (AttributeValues.vi)
  cycles,    \* t.cycles
  traces,    \* t.traces, the buffered channel of tree.go
  failed,    \* a Train call panicked
  ntrain,    \* Train, SetConfig and Prune calls made so far
  last,      \* what the last completed call did and returned
  pc,        \* position of every thread
  arg,       \* the instance of the call a thread is in
  mu,        \* t.mu: the writer and the readers holding it
  mid,       \* locals of the Train call that is between lock and unlock
  committed, \* the tree as the last whole Train call left it
  seen,      \* what the last Predict / DumpTo of every thread read
  vmu,       \* AttributeValues.mu of the nominal predictor's value set
  call,      \* IndexOf: the string and the locals n, ok of every caller
  returned,  \* IndexOf: every (string, index) a call has returned
  dumped,    \* the stream DumpTo wrote, as the reader handed to Load holds it
  loaded,    \* what Load returned
  prediction, \* a core.Prediction: the slice Rank and Top work on
  given,     \* the slice as it was handed over
  top,       \* what the last Rank / Top call returned
  attempt,   \* attemptSplit called on its own: the arguments and the result
  pruned     \* the paths of the leaves a pruning pass has deactivated so far

\* the state of the tree, and the state only the calls made directly on a
\* value set touch
treeVars == <<impl, conf, asked, tree, cycles, traces, failed, ntrain, last, arg, mu, mid,
              committed, seen, pruned>>
aux == <<vmu, call, returned, dumped, loaded, prediction, given, top, attempt>>
vars == <<impl, conf, asked, tree, vi, cycles, traces, failed, ntrain, last, pc, arg, mu, mid,
          committed, seen, aux, pruned>>

NumThreads == 2
Threads == 1 .. NumThreads

NoInstance == [cls |-> 0, x |-> NoVal, o |-> NoLevel]

InitTree == [p \in Paths |-> IF p = Root THEN newLeafNode(ZeroStats) ELSE NilNode]

NoCall ==
  [op |-> "none", trace |-> NilTrace, isLeaf |-> FALSE, fresh |-> FALSE,
   called |-> FALSE, ran |-> FALSE, sizeBefore |-> 0, byteSize |-> 0,
   inactiveAfter |-> 0, activeAfter |-> 0, evaluated |-> FALSE, reached |-> FALSE, promoted |-> FALSE,
   grew |-> FALSE, weight |-> 0, wleBefore |-> 0, leafInactive |-> FALSE,
   leafSufficient |-> FALSE, inactiveBefore |-> FALSE, due |-> FALSE,
   unknown |-> FALSE, node |-> Root, hasParent |-> FALSE, parent |-> Root,
   index |-> 0 - 1, before |-> InitTree, reactivated |-> 0, sizeAfter |-> 0,
   flagsBefore |-> << >>, flags |-> << >>,
   deactivatedEvaluated |-> FALSE, reactivatedEvaluated |-> FALSE]

NoMid == [isLeaf |-> FALSE, node |-> Root, panic |-> FALSE]
NoSeen == [op |-> "none", whole |-> TRUE]

NoIndexCall == [s |-> NoLevel, n |-> NoIdx, ok |-> FALSE]
NoAttempt == [op |-> "none"]

InitAux ==
  /\ vmu = [writer |-> 0, readers |-> {}]
  /\ call = [t \in Threads |-> NoIndexCall]
  /\ returned = {}
  /\ dumped = NoDump
  /\ loaded = NotLoaded
  /\ prediction = << >> /\ given = << >> /\ top = NoTop
  /\ attempt = NoAttempt /\ pruned = {}

InitWith(im, c) ==
  /\ InitAux
  /\ impl = im
  /\ asked = c
  /\ \E period \in UnsetPrunePeriods(im) : conf = SetConfigOf(FALSE, c, period)
  /\ tree = InitTree
  /\ vi = EmptyValues
  /\ cycles = 0
  /\ traces = << >>
  /\ failed = FALSE
  /\ ntrain = 0
  /\ last = NoCall
  /\ pc = [t \in Threads |-> "idle"]
  /\ arg = [t \in Threads |-> NoInstance]
  /\ mu = [writer |-> 0, readers |-> {}]
  /\ mid = NoMid
  /\ committed = InitTree
  /\ seen = [t \in Threads |-> NoSeen]

\* ------------------------------------------------- whole calls, one caller
Quiet == \A t \in Threads : pc[t] = "idle"

\* the leaves the pruning step of a Train call deactivated
Deactivated(before, after) ==
  {p \in Paths : IsLeaf(before[p]) /\ ~before[p].inactive
                   /\ IsLeaf(after[p]) /\ after[p].inactive}

\* the leaves the pruning step of a Train call found inactive and left active
Reactivated(before, after) ==
  {p \in Paths : IsLeaf(before[p]) /\ before[p].inactive
                   /\ IsLeaf(after[p]) /\ ~after[p].inactive}

\* the inactive flag of each leaf, in the order sort.Sort left t.leaves
InactiveFlags(tr, leaves) == [i \in 1 .. Len(leaves) |-> tr[leaves[i]].inactive]

LandedCall(l, m, e, tr) ==
  [NoCall EXCEPT !.op = "train", !.trace = tr, !.isLeaf = TRUE,
                 !.fresh = l.fresh, !.called = m.called, !.ran = m.ran,
                 !.sizeBefore = IF m.ran THEN ByteSize(l.tree) ELSE 0,
                 !.byteSize = IF m.ran THEN m.byteSize ELSE 0,
                 !.inactiveAfter = IF m.ran THEN NumInactiveLeaves(m.tree) ELSE 0,
                 !.activeAfter = IF m.ran THEN NumActiveLeaves(m.tree) ELSE 0,
                 !.evaluated = e.evaluated, !.reached = e.reached,
                 !.promoted = e.promoted,
                 !.weight = TotalWeight(m.tree[l.node].stats),
                 !.wleBefore = m.tree[l.node].wle,
                 !.leafInactive = m.tree[l.node].inactive,
                 !.leafSufficient = IsSufficient(m.tree[l.node].stats),
                 !.inactiveBefore = l.tree[l.node].inactive, !.due = m.due,
                 !.node = l.node, !.hasParent = l.hasParent, !.parent = l.parent,
                 !.index = l.index,
                 !.before = IF e.promoted THEN m.tree ELSE InitTree,
                 !.reactivated = Cardinality(Reactivated(l.tree, m.tree)),
                 !.deactivatedEvaluated =
                    \E p \in Deactivated(l.tree, m.tree) : l.tree[p].wle > 0,
                 !.reactivatedEvaluated =
                    \E p \in Reactivated(l.tree, m.tree) : l.tree[p].wle > 0,
                 !.sizeAfter = IF m.ran THEN ByteSize(m.tree) ELSE 0]

\* Tree.Train of part_000
TrainRetCall(inst, tied, max) ==
  /\ impl = "ret" /\ Quiet /\ ~failed /\ ntrain < max
  /\ ntrain' = ntrain + 1
  /\ \E l \in {Land(tree, vi, inst)} :
     IF ~l.isLeaf
     THEN /\ tree' = l.tree /\ vi' = l.vi /\ cycles' = cycles /\ pruned' = pruned
          /\ last' = [NoCall EXCEPT !.op = "train",
                                  !.unknown = UnknownBranchOnPath(tree, vi, inst)]
     ELSE \E leaves \in LeafOrders("ret", conf, cycles, l.tree) :
            \E m \in {PruneStep(conf, cycles, l.tree, leaves)} :
            \E splits \in Rankings(tied, conf, m.tree, l.node) :
              \E e \in {TrainEval(conf, m.tree, l.node, splits)} :
              /\ e.promoted => Len(l.node) < MaxDepth
              /\ tree' = e.tree /\ vi' = l.vi /\ cycles' = m.cycles
              /\ pruned' = pruned \cup Deactivated(l.tree, m.tree)
              /\ last' = [LandedCall(l, m, e, e.trace)
                          EXCEPT !.unknown = UnknownBranchOnPath(tree, vi, inst),
                                 !.flagsBefore = InactiveFlags(l.tree, leaves),
                                 !.flags = InactiveFlags(m.tree, leaves)]
  /\ committed' = tree'
  /\ UNCHANGED <<aux, impl, conf, asked, traces, failed, pc, arg, mu, mid, seen>>

\* Tree.Train of tree.go; the deferred send publishes the Trace
TrainChanCall(inst, tied, max) ==
  /\ impl = "chan" /\ Quiet /\ ~failed /\ ntrain < max
  /\ conf.EnableTracing => Len(traces) < TracesCap
  /\ ntrain' = ntrain + 1
  /\ \E l \in {Land(tree, vi, inst)} :
     IF ~l.isLeaf
     THEN /\ tree' = l.tree /\ vi' = l.vi /\ cycles' = cycles /\ failed' = FALSE
          /\ pruned' = pruned
          /\ last' = [NoCall EXCEPT !.op = "train",
                                  !.unknown = UnknownBranchOnPath(tree, vi, inst)]
     ELSE \E leaves \in LeafOrders("chan", conf, cycles, l.tree) :
            \E m \in {PruneStepChan(conf, cycles, l.tree, leaves)} :
            IF m.panic
            THEN /\ tree' = m.tree /\ vi' = l.vi /\ cycles' = m.cycles /\ failed' = TRUE
                 /\ pruned' = pruned
                 /\ last' = [NoCall EXCEPT !.op = "panic", !.isLeaf = TRUE,
                                         !.unknown = UnknownBranchOnPath(tree, vi, inst)]
            ELSE \E splits \in Rankings(tied, conf, m.tree, l.node) :
                   \E e \in {TrainEvalChan(conf, m.tree, l.node, splits)} :
                   /\ e.promoted => Len(l.node) < MaxDepth
                   /\ tree' = e.tree /\ vi' = l.vi /\ cycles' = m.cycles
                   /\ failed' = FALSE
                   /\ pruned' = pruned \cup Deactivated(l.tree, m.tree)
                   /\ last' = [LandedCall(l, m, e, e.trace)
                          EXCEPT !.unknown = UnknownBranchOnPath(tree, vi, inst)]
  /\ traces' = IF conf.EnableTracing THEN Append(traces, last'.trace) ELSE traces
  /\ committed' = tree'
  /\ UNCHANGED <<aux, impl, conf, asked, pc, arg, mu, mid, seen>>

\* Tree.SetConfig of part_000: nil stands for new(Config), norm fills the
\* defaults, t.conf is replaced under the lock; the calls that write the
\* tree or its configuration share the bound MaxTrain
SetConfig(isNil, c) ==
  /\ impl = "ret" /\ Quiet /\ ~failed /\ ntrain < MaxTrain
  /\ ntrain' = ntrain + 1
  /\ asked' = IF isNil THEN ZeroConfig ELSE c
  /\ \E period \in UnsetPrunePeriods(impl) : conf' = SetConfigOf(isNil, c, period)
  /\ last' = [NoCall EXCEPT !.op = "setconfig"]
  /\ UNCHANGED <<aux, pruned, impl, tree, vi, cycles, traces, failed, pc, arg, mu, mid,
                 committed, seen>>

\* the PruneEval functions a caller passes: every leaf is obsolete, the
\* inactive leaves are
PruneEvals == {"all", "inactive"}

IsObsolete(ev, leaf, parent) == IF ev = "inactive" THEN leaf.inactive ELSE TRUE

\* root.Prune(isObsolete, nil): every leaf that has a parent and that
\* isObsolete holds of is replaced in its parent by a fresh empty leaf
PruneNodes(tr, ev) ==
  [p \in Paths |->
     IF p # Root /\ IsLeaf(tr[p]) /\ IsObsolete(ev, tr[p], tr[SubSeq(p, 1, Len(p) - 1)])
     THEN newLeafNode(ZeroStats) ELSE tr[p]]

\* Tree.Prune(isObsolete) of part_000
Prune(ev) ==
  /\ impl = "ret" /\ Quiet /\ ~failed /\ ntrain < MaxTrain
  /\ ntrain' = ntrain + 1
  /\ tree' = PruneNodes(tree, ev)
  /\ committed' = tree'
  /\ pruned' = {p \in pruned : tree'[p] = tree[p]}
  /\ last' = [NoCall EXCEPT !.op = "prune"]
  /\ UNCHANGED <<aux, impl, conf, asked, vi, cycles, traces, failed, pc, arg, mu, mid, seen>>

TrainRet(inst) == TrainRetCall(inst, FALSE, MaxTrain)
TrainChan(inst) == TrainChanCall(inst, FALSE, MaxTrain)

\* Tree.Predict of either variant
Predict(inst) ==
  /\ Quiet /\ ~failed
  /\ \E r \in {PredictBody(tree, vi, inst)} :
     /\ vi' = r.vi
     /\ last' = [NoCall EXCEPT !.op = "predict", !.grew = (r.vi # vi)]
  /\ UNCHANGED <<aux, pruned, impl, conf, asked, tree, cycles, traces, failed, ntrain, pc, arg, mu, mid,
                 committed, seen>>

\* the training and prediction instances: both classes, both predictors
\* present and missing, two nominal levels
Instances ==
  {[cls |-> 0, x |-> 1, o |-> "a"], [cls |-> 1, x |-> 2, o |-> "a"],
   [cls |-> 1, x |-> 1, o |-> "b"], [cls |-> 0, x |-> NoVal, o |-> "b"],
   [cls |-> 1, x |-> 2, o |-> NoLevel]}

Configs ==
  {Config(1, 0, InfTarget, TRUE, 0), Config(1, 1, 2, FALSE, 10),
   Config(2, 2, 5, TRUE, 0), Config(1, 1, 5, FALSE, 10),
   Config(2, 1, InfTarget, FALSE, 0),
   Config(1, 1, 3, TRUE, 0), Config(1, 0, 2, FALSE, 10)}

\* the configurations handed to SetConfig on a live tree
NewConfigs == {Config(1, 1, 3, FALSE, 0)}

Init ==
  \E im \in Impls : \E c \in Configs :
    /\ im = "chan" => ~c.EnableTracing
    /\ InitWith(im, c)

Next ==
  \/ \E inst \in Instances : TrainRet(inst)
  \/ \E inst \in Instances : TrainChan(inst)
  \/ \E inst \in Instances : Predict(inst)
  \/ \E c \in NewConfigs : SetConfig(FALSE, c)
  \/ SetConfig(TRUE, ZeroConfig)
  \/ \E ev \in PruneEvals : Prune(ev)

Spec == Init /\ [][Next]_vars

\* a longer run: one configuration whose pruning pass deactivates a leaf,
\* reactivates it two calls later and lets it be promoted after that, with
\* the instances of the calls fixed; the order of the sorted leaves and the
\* ranking of the suggestions stay open
ReactConfig == Config(1, 1, 8, FALSE, 10)
ReactInputs ==
  <<[cls |-> 0, x |-> NoVal, o |-> "b"], [cls |-> 1, x |-> 1, o |-> "b"],
    [cls |-> 1, x |-> 1, o |-> "b"], [cls |-> 0, x |-> 1, o |-> "a"],
    [cls |-> 1, x |-> 1, o |-> "b"], [cls |-> 1, x |-> 2, o |-> "a"]>>

ScriptedTrainRet ==
  /\ conf = ReactConfig /\ ntrain < Len(ReactInputs)
  /\ TrainRetCall(ReactInputs[ntrain + 1], FALSE, Len(ReactInputs))

ScriptedTrainChan ==
  /\ conf = ReactConfig /\ ntrain < Len(ReactInputs)
  /\ TrainChanCall(ReactInputs[ntrain + 1], FALSE, Len(ReactInputs))

InitReact ==
  \/ Init
  \/ \E im \in Impls : InitWith(im, ReactConfig)

NextReact ==
  \/ conf # ReactConfig /\ Next
  \/ ScriptedTrainRet
  \/ ScriptedTrainChan

SpecReact == InitReact /\ [][NextReact]_vars

\* four calls under a small target: the second call promotes the root, the
\* third and the fourth each run a pruning pass over the two leaves
PassConfig == Config(1, 1, 2, FALSE, 1)
PassInputs ==
  <<[cls |-> 0, x |-> NoVal, o |-> "b"], [cls |-> 1, x |-> 1, o |-> "b"],
    [cls |-> 1, x |-> 1, o |-> "b"], [cls |-> 1, x |-> 1, o |-> "b"]>>

PassTrainRet ==
  /\ conf = PassConfig /\ ntrain < Len(PassInputs)
  /\ TrainRetCall(PassInputs[ntrain + 1], FALSE, Len(PassInputs))

PassTrainChan ==
  /\ conf = PassConfig /\ ntrain < Len(PassInputs)
  /\ TrainChanCall(PassInputs[ntrain + 1], FALSE, Len(PassInputs))

InitPass ==
  \/ InitReact
  \/ \E im \in Impls : InitWith(im, PassConfig)

NextPass ==
  \/ conf # PassConfig /\ NextReact
  \/ PassTrainRet
  \/ PassTrainChan

SpecPass == InitPass /\ [][NextPass]_vars

\* ------------------------------------------------ calls from several threads
\* sync.RWMutex: one writer or any number of readers
CanAcquire(kind, m) ==
  IF kind = "w" THEN m.writer = 0 /\ m.readers = {}
  ELSE IF kind = "r" THEN m.writer = 0
  ELSE TRUE
Acquire(kind, m, t) ==
  IF kind = "w" THEN [m EXCEPT !.writer = t]
  ELSE IF kind = "r" THEN [m EXCEPT !.readers = @ \cup {t}]
  ELSE m
Release(kind, m, t) ==
  IF kind = "w" THEN [m EXCEPT !.writer = 0]
  ELSE IF kind = "r" THEN [m EXCEPT !.readers = @ \ {t}]
  ELSE m

\* the lock each operation takes: "w" = Lock, "r" = RLock, "none" = no lock
TrainLockKindShared(im) == "r"
TrainLockKind(im) == "w"
PredictLockKind(im) == IF im = "ret" THEN "r" ELSE "w"
DumpLockKind == "none"

InTrain(t) == pc[t] \in {"train_learn", "train_eval", "train_unlock"}
InPredict(t) == pc[t] \in {"predict_body", "predict_unlock"}
InDump(t) == pc[t] = "dump_root"

CallTrain(t, inst) ==
  /\ pc[t] = "idle" /\ ~failed /\ ntrain < MaxConcTrain
  /\ ntrain' = ntrain + 1
  /\ pc' = [pc EXCEPT ![t] = "train_lock"]
  /\ arg' = [arg EXCEPT ![t] = inst]
  /\ UNCHANGED <<aux, pruned, impl, conf, asked, tree, vi, cycles, traces, failed, last, mu, mid, committed,
                 seen>>

\* Train: t.mu.Lock()
TrainLock(t) ==
  /\ pc[t] = "train_lock"
  /\ CanAcquire(TrainLockKind(impl), mu)
  /\ mu' = Acquire(TrainLockKind(impl), mu, t)
  /\ pc' = [pc EXCEPT ![t] = "train_learn"]
  /\ UNCHANGED <<aux, pruned, impl, conf, asked, tree, vi, cycles, traces, failed, ntrain, last, arg, mid,
                 committed, seen>>

\* Train: Filter, the fresh leaf, leaf.Learn and the pruning step
TrainLearn(t) ==
  /\ pc[t] = "train_learn"
  /\ \E l \in {Land(tree, vi, arg[t])} :
       IF ~l.isLeaf
       THEN /\ tree' = l.tree /\ vi' = l.vi /\ cycles' = cycles
            /\ mid' = [isLeaf |-> FALSE, node |-> l.node, panic |-> FALSE]
            /\ pc' = [pc EXCEPT ![t] = "train_unlock"]
       ELSE \E leaves \in LeafOrders(impl, conf, cycles, l.tree) :
              \E m \in {IF impl = "ret" THEN PruneStep(conf, cycles, l.tree, leaves)
                        ELSE PruneStepChan(conf, cycles, l.tree, leaves)} :
                /\ tree' = m.tree /\ vi' = l.vi /\ cycles' = m.cycles
                /\ mid' = [isLeaf |-> TRUE, node |-> l.node, panic |-> m.panic]
                /\ pc' = [pc EXCEPT ![t] = IF m.panic THEN "train_unlock"
                                           ELSE "train_eval"]
  /\ UNCHANGED <<aux, pruned, impl, conf, asked, traces, failed, ntrain, last, arg, mu, committed, seen>>

\* Train: the grace-period test, the split attempt, the replacement of the
\* leaf and WeightOnLastEval
TrainEvalStep(t) ==
  /\ pc[t] = "train_eval"
  /\ \E splits \in Rankings(FALSE, conf, tree, mid.node) :
       \E e \in {IF impl = "ret" THEN TrainEval(conf, tree, mid.node, splits)
                 ELSE TrainEvalChan(conf, tree, mid.node, splits)} :
         /\ e.promoted => Len(mid.node) < MaxDepth
         /\ tree' = e.tree
  /\ pc' = [pc EXCEPT ![t] = "train_unlock"]
  /\ UNCHANGED <<aux, pruned, impl, conf, asked, vi, cycles, traces, failed, ntrain, last, arg, mu, mid,
                 committed, seen>>

\* Train: the deferred t.mu.Unlock()
TrainUnlock(t) ==
  /\ pc[t] = "train_unlock"
  /\ mu' = Release(TrainLockKind(impl), mu, t)
  /\ failed' = mid.panic
  /\ committed' = tree
  /\ mid' = NoMid
  /\ pc' = [pc EXCEPT ![t] = "idle"]
  /\ arg' = [arg EXCEPT ![t] = NoInstance]
  /\ UNCHANGED <<aux, pruned, impl, conf, asked, tree, vi, cycles, traces, ntrain, last, seen>>

CallPredict(t, inst) ==
  /\ pc[t] = "idle" /\ ~failed
  /\ pc' = [pc EXCEPT ![t] = "predict_lock"]
  /\ arg' = [arg EXCEPT ![t] = inst]
  /\ UNCHANGED <<aux, pruned, impl, conf, asked, tree, vi, cycles, traces, failed, ntrain, last, mu, mid,
                 committed, seen>>

\* Predict: t.mu.RLock() in part_000, t.mu.Lock() in tree.go
PredictLock(t) ==
  /\ pc[t] = "predict_lock"
  /\ CanAcquire(PredictLockKind(impl), mu)
  /\ mu' = Acquire(PredictLockKind(impl), mu, t)
  /\ pc' = [pc EXCEPT ![t] = "predict_body"]
  /\ UNCHANGED <<aux, pruned, impl, conf, asked, tree, vi, cycles, traces, failed, ntrain, last, arg, mid,
                 committed, seen>>

\* Predict: Filter and node.Predict()
PredictRead(t) ==
  /\ pc[t] = "predict_body"
  /\ vi' = PredictBody(tree, vi, arg[t]).vi
  /\ seen' = [seen EXCEPT ![t] = [op |-> "predict", whole |-> (tree = committed)]]
  /\ pc' = [pc EXCEPT ![t] = "predict_unlock"]
  /\ UNCHANGED <<aux, pruned, impl, conf, asked, tree, cycles, traces, failed, ntrain, last, arg, mu, mid,
                 committed>>

PredictUnlock(t) ==
  /\ pc[t] = "predict_unlock"
  /\ mu' = Release(PredictLockKind(impl), mu, t)
  /\ pc' = [pc EXCEPT ![t] = "idle"]
  /\ arg' = [arg EXCEPT ![t] = NoInstance]
  /\ UNCHANGED <<aux, pruned, impl, conf, asked, tree, vi, cycles, traces, failed, ntrain, last, mid,
                 committed, seen>>

\* DumpTo of part_000: enc.Encode(t) calls EncodeTo, which encodes t.model
\* and then t.root; no lock of the tree is taken on the way
DumpModel(t) ==
  /\ impl = "ret" /\ pc[t] = "idle" /\ ~failed
  /\ CanAcquire(DumpLockKind, mu)
  /\ pc' = [pc EXCEPT ![t] = "dump_root"]
  /\ UNCHANGED <<aux, pruned, impl, conf, asked, tree, vi, cycles, traces, failed, ntrain, last, arg, mu, mid,
                 committed, seen>>

DumpRoot(t) ==
  /\ pc[t] = "dump_root"
  /\ seen' = [seen EXCEPT ![t] = [op |-> "dump", whole |-> (tree = committed)]]
  /\ pc' = [pc EXCEPT ![t] = "idle"]
  /\ UNCHANGED <<aux, pruned, impl, conf, asked, tree, vi, cycles, traces, failed, ntrain, last, arg, mu, mid,
                 committed>>

\* the instances of the Train calls, taken in turn as the calls are made
ConcInstances == <<[cls |-> 0, x |-> 1, o |-> "a"], [cls |-> 1, x |-> 2, o |-> "b"]>>

ConcQuery == [cls |-> 0, x |-> 2, o |-> "b"]

InitConc == \E im \in Impls : InitWith(im, Config(1, 1, 5, FALSE, 10))

NextConc ==
  \E t \in Threads :
    \/ CallTrain(t, ConcInstances[(ntrain % Len(ConcInstances)) + 1])
    \/ TrainLock(t)
    \/ TrainLearn(t)
    \/ TrainEvalStep(t)
    \/ TrainUnlock(t)
    \/ CallPredict(t, ConcQuery)
    \/ PredictLock(t)
    \/ PredictRead(t)
    \/ PredictUnlock(t)
    \/ DumpModel(t)
    \/ DumpRoot(t)

SpecConc == InitConc /\ [][NextConc]_vars

\* --------------------------------- Train of tree.go with EnableTracing set
MaxTracedTrain == 4

TracedConfig == Config(1, 0, 0, TRUE, 0)

TracedInstances == {[cls |-> 0, x |-> 1, o |-> "a"]}

\* Train is entered; the caller is about to take the lock
CallTracedTrain(t, inst) ==
  /\ impl = "chan" /\ pc[t] = "idle" /\ ~failed /\ ntrain < MaxTracedTrain
  /\ ntrain' = ntrain + 1
  /\ pc' = [pc EXCEPT ![t] = "train_lock"]
  /\ arg' = [arg EXCEPT ![t] = inst]
  /\ UNCHANGED <<aux, pruned, impl, conf, asked, tree, vi, cycles, traces, failed, last, mu, mid, committed,
                 seen>>

\* Train of tree.go between t.mu.Lock() and the return: Filter, Learn, the
\* pruning step and the split attempt; the deferred send is still to run
TrainBody(t) ==
  /\ impl = "chan" /\ pc[t] = "train_learn" /\ mu.writer = t
  /\ \E l \in {Land(tree, vi, arg[t])} :
     IF ~l.isLeaf
     THEN /\ tree' = l.tree /\ vi' = l.vi /\ cycles' = cycles
          /\ pruned' = pruned
          /\ mid' = [isLeaf |-> FALSE, node |-> l.node, panic |-> FALSE]
          /\ last' = [NoCall EXCEPT !.op = "train",
                                  !.unknown = UnknownBranchOnPath(tree, vi, arg[t])]
     ELSE \E leaves \in LeafOrders("chan", conf, cycles, l.tree) :
            \E m \in {PruneStepChan(conf, cycles, l.tree, leaves)} :
            IF m.panic
            THEN /\ tree' = m.tree /\ vi' = l.vi /\ cycles' = m.cycles
                 /\ pruned' = pruned
                 /\ mid' = [isLeaf |-> TRUE, node |-> l.node, panic |-> TRUE]
                 /\ last' = [NoCall EXCEPT !.op = "panic", !.isLeaf = TRUE,
                                         !.unknown = UnknownBranchOnPath(tree, vi, arg[t])]
            ELSE \E splits \in Rankings(FALSE, conf, m.tree, l.node) :
                   \E e \in {TrainEvalChan(conf, m.tree, l.node, splits)} :
                   /\ e.promoted => Len(l.node) < MaxDepth
                   /\ tree' = e.tree /\ vi' = l.vi /\ cycles' = m.cycles
                   /\ pruned' = pruned \cup Deactivated(l.tree, m.tree)
                   /\ mid' = [isLeaf |-> TRUE, node |-> l.node, panic |-> FALSE]
                   /\ last' = [LandedCall(l, m, e, e.trace)
                          EXCEPT !.unknown = UnknownBranchOnPath(tree, vi, arg[t])]
  /\ pc' = [pc EXCEPT ![t] = IF conf.EnableTracing THEN "train_send" ELSE "train_unlock"]
  /\ UNCHANGED <<aux, impl, conf, asked, traces, failed, ntrain, arg, mu, committed, seen>>

\* Train: the deferred func() { t.traces <- trace }(); it was deferred after
\* t.mu.Unlock(), so it runs first, and a send on a full channel waits
TrainSend(t) ==
  /\ pc[t] = "train_send"
  /\ Len(traces) < TracesCap
  /\ traces' = Append(traces, last.trace)
  /\ pc' = [pc EXCEPT ![t] = "train_unlock"]
  /\ UNCHANGED <<aux, pruned, impl, conf, asked, tree, vi, cycles, failed, ntrain, last, arg, mu, mid,
                 committed, seen>>

\* a consumer: trace := <-tree.Traces()
ReceiveTrace(t) ==
  /\ pc[t] = "recv"
  /\ traces # << >>
  /\ traces' = Tail(traces)
  /\ UNCHANGED <<aux, pruned, impl, conf, asked, tree, vi, cycles, failed, ntrain, last, pc, arg, mu, mid,
                 committed, seen>>

\* the callers are all idle; the last thread may be a consumer of Traces()
InitTraced ==
  /\ InitAux
  /\ impl = "chan" /\ asked = TracedConfig
  /\ \E period \in UnsetPrunePeriods("chan") : conf = SetConfigOf(FALSE, TracedConfig, period)
  /\ tree = InitTree /\ vi = EmptyValues /\ cycles = 0
  /\ traces = << >> /\ failed = FALSE /\ ntrain = 0 /\ last = NoCall
  /\ \E consumer \in BOOLEAN :
       pc = [t \in Threads |-> IF consumer /\ t = NumThreads THEN "recv" ELSE "idle"]
  /\ arg = [t \in Threads |-> NoInstance]
  /\ mu = [writer |-> 0, readers |-> {}]
  /\ mid = NoMid
  /\ committed = InitTree
  /\ seen = [t \in Threads |-> NoSeen]

NextTraced ==
  \E t \in Threads :
    \/ \E inst \in TracedInstances : CallTracedTrain(t, inst)
    \/ TrainLock(t)
    \/ TrainBody(t)
    \/ TrainSend(t)
    \/ TrainUnlock(t)
    \/ ReceiveTrace(t)
    \/ CallPredict(t, ConcQuery)
    \/ PredictLock(t)
    \/ PredictRead(t)
    \/ PredictUnlock(t)

SpecTraced == InitTraced /\ [][NextTraced]_vars

\* every step of a caller that can run does run, and a caller waiting for the
\* lock gets it when it is free again and again (sync.Mutex hands the lock to
\* a starving waiter); nothing obliges a consumer to receive
SpecTracedFair ==
  /\ SpecTraced
  /\ \A t \in Threads :
       /\ SF_vars(TrainLock(t)) /\ SF_vars(PredictLock(t))
       /\ WF_vars(TrainBody(t) \/ TrainSend(t) \/ TrainUnlock(t)
                  \/ PredictRead(t) \/ PredictUnlock(t))

\* ------------------------------------- a stream with tied best suggestions
TieInstances == {[cls |-> 0, x |-> 1, o |-> "a"], [cls |-> 1, x |-> 2, o |-> "b"]}

TieTrainRet(inst) == TrainRetCall(inst, TRUE, MaxTieWeight)
TieTrainChan(inst) == TrainChanCall(inst, TRUE, MaxTieWeight)

InitTie ==
  \E im \in Impls : \E tie \in {0, 1} : InitWith(im, Config(1, 1, InfTarget, FALSE, tie))

NextTie ==
  \/ \E inst \in TieInstances : TieTrainRet(inst)
  \/ \E inst \in TieInstances : TieTrainChan(inst)

SpecTie == InitTie /\ [][NextTie]_vars /\ WF_vars(NextTie)

\* ----------------------------------------------------- DumpTo and Load
DumpTrain(inst) == dumped = NoDump /\ TrainRetCall(inst, FALSE, MaxTrain)

\* Tree.DumpTo
DumpTo ==
  /\ impl = "ret" /\ Quiet /\ dumped = NoDump
  /\ dumped' = EncodeTo(tree, vi)
  /\ UNCHANGED <<treeVars, vi, pc, vmu, call, returned, loaded, prediction, given, top, attempt>>

\* the reader handed to Load holds state stored for a model that lacks a
\* predictor
StoredWithout(a) ==
  /\ dumped # NoDump /\ ~loaded.called
  /\ a \in DecodeModel(dumped).preds /\ Cardinality(DecodeModel(dumped).preds) > 1
  /\ dumped' = WithoutPredictor(dumped, a)
  /\ UNCHANGED <<treeVars, vi, pc, vmu, call, returned, loaded, prediction, given, top, attempt>>

\* Load(r, conf)
Load ==
  /\ dumped # NoDump /\ ~loaded.called
  /\ \E isNil \in BOOLEAN : loaded' = LoadFrom(dumped, isNil, asked)
  /\ UNCHANGED <<treeVars, vi, pc, vmu, call, returned, dumped, prediction, given, top, attempt>>

DumpConfigs == {Config(1, 0, InfTarget, FALSE, 10), Config(1, 1, 2, FALSE, 10)}

InitDump == \E c \in DumpConfigs : InitWith("ret", c)

NextDump ==
  \/ \E inst \in Instances : DumpTrain(inst)
  \/ DumpTo
  \/ \E a \in Predictors : StoredWithout(a)
  \/ Load

SpecDump == InitDump /\ [][NextDump]_vars

\* ----------------------------------------------- Rank and Top on a slice
RankCall ==
  /\ \E q \in PredictionRank(prediction) :
       /\ prediction' = q
       /\ top' = [NoTop EXCEPT !.op = "rank"]
  /\ UNCHANGED <<treeVars, vi, pc, vmu, call, returned, dumped, loaded, given, attempt>>

TopCall ==
  /\ \E q \in PredictionRank(prediction) :
     \E r \in {PredictionTop(prediction, q)} :
       /\ prediction' = r.p
       /\ top' = [op |-> "top", value |-> r.top.value, votes |-> r.top.votes]
  /\ UNCHANGED <<treeVars, vi, pc, vmu, call, returned, dumped, loaded, given, attempt>>

InitPred ==
  /\ impl = "ret" /\ asked = Config(1, 0, InfTarget, FALSE, 0)
  /\ conf = SetConfigOf(FALSE, asked, 0)
  /\ tree = InitTree /\ vi = EmptyValues /\ cycles = 0 /\ traces = << >>
  /\ failed = FALSE /\ ntrain = 0
  /\ last = NoCall /\ pc = [t \in Threads |-> "idle"]
  /\ arg = [t \in Threads |-> NoInstance] /\ mu = [writer |-> 0, readers |-> {}]
  /\ mid = NoMid /\ committed = InitTree /\ seen = [t \in Threads |-> NoSeen]
  /\ vmu = [writer |-> 0, readers |-> {}]
  /\ call = [t \in Threads |-> NoIndexCall]
  /\ returned = {} /\ dumped = NoDump /\ loaded = NotLoaded
  /\ prediction \in UNION {[1 .. k -> PredictedValues] : k \in 0 .. MaxPredLen}
  /\ given = prediction /\ top = NoTop /\ attempt = NoAttempt /\ pruned = {}

NextPred == RankCall \/ TopCall

SpecPred == InitPred /\ [][NextPred]_vars

\* ------------------------------------------- attemptSplit on its own
\* the leaves, rankings and tie thresholds the split attempt is tried on:
\* class counts up to a weight at which the bound falls below 0.05, one or
\* two suggestions of any merit ahead of or behind the null suggestion
MaxClassWeight == 14
AttemptCounts == {0, 1, 3, MaxClassWeight - 1, MaxClassWeight}
AttemptLeaves ==
  {[newLeafNode([c \in Classes |-> IF c = 0 THEN a ELSE b]) EXCEPT !.inactive = i] :
     a \in AttemptCounts, b \in AttemptCounts \ {3}, i \in BOOLEAN}
AttemptRankings ==
  UNION {Rank(S \cup {NullSuggestion}) :
           S \in {{}} \cup {{s} : s \in Suggestions("x", {1})}
                 \cup {{s, t} : s \in Suggestions("x", {1}), t \in Suggestions("o", {0})}}
TieThresholds == {0, 1, 10}

\* Tree.attemptSplit(leaf, weight, trace) with weight the leaf's total
\* weight, as Train calls it
AttemptSplitRet ==
  /\ attempt.op = "given" /\ attempt.impl = "ret"
  /\ \E a \in {attemptSplit(attempt.conf, attempt.leaf, TotalWeight(attempt.leaf.stats),
                            NilTrace, attempt.splits)} :
       attempt' = [attempt EXCEPT !.op = "done", !.split = a.split, !.best = a.best]
  /\ UNCHANGED <<treeVars, vi, pc, vmu, call, returned, dumped, loaded, prediction, given,
                 top>>

AttemptSplitChan ==
  /\ attempt.op = "given" /\ attempt.impl = "chan"
  /\ \E a \in {attemptSplitChan(attempt.conf, attempt.leaf, TotalWeight(attempt.leaf.stats),
                                NilTrace, attempt.splits)} :
       attempt' = [attempt EXCEPT !.op = "done", !.split = a.split, !.best = a.best]
  /\ UNCHANGED <<treeVars, vi, pc, vmu, call, returned, dumped, loaded, prediction, given,
                 top>>

InitSplit ==
  /\ impl = "ret" /\ asked = Config(1, 0, InfTarget, FALSE, 0)
  /\ conf = SetConfigOf(FALSE, asked, 0)
  /\ tree = InitTree /\ vi = EmptyValues /\ cycles = 0 /\ traces = << >>
  /\ failed = FALSE /\ ntrain = 0
  /\ last = NoCall /\ pc = [t \in Threads |-> "idle"]
  /\ arg = [t \in Threads |-> NoInstance] /\ mu = [writer |-> 0, readers |-> {}]
  /\ mid = NoMid /\ committed = InitTree /\ seen = [t \in Threads |-> NoSeen]
  /\ vmu = [writer |-> 0, readers |-> {}]
  /\ call = [t \in Threads |-> NoIndexCall]
  /\ returned = {} /\ dumped = NoDump /\ loaded = NotLoaded
  /\ prediction = << >> /\ given = << >> /\ top = NoTop /\ pruned = {}
  /\ \E im \in Impls : \E tie \in TieThresholds :
     \E leaf \in AttemptLeaves : \E splits \in AttemptRankings :
       attempt = [op |-> "given", impl |-> im,
                  conf |-> SetConfigOf(FALSE, Config(1, 1, InfTarget, FALSE, tie), 0),
                  leaf |-> leaf, splits |-> splits, split |-> FALSE,
                  best |-> NullSuggestion]

NextSplit == AttemptSplitRet \/ AttemptSplitChan

SpecSplit == InitSplit /\ [][NextSplit]_vars

\* ------------------------------- IndexOf called from several threads
\* the value sets NewAttributeValues builds from distinct values
InitialValues ==
  {vals \in UNION {[1 .. k -> Levels] : k \in 0 .. Cardinality(Levels)} :
     \A i, j \in DOMAIN vals : i # j => vals[i] # vals[j]}

CallIndexOf(t, s) ==
  /\ pc[t] = "idle"
  /\ pc' = [pc EXCEPT ![t] = "idx_rlock"]
  /\ call' = [call EXCEPT ![t] = [NoIndexCall EXCEPT !.s = s]]
  /\ UNCHANGED <<treeVars, vi, vmu, returned, dumped, loaded, prediction, given, top, attempt>>

\* v.mu.RLock()
IndexRLock(t) ==
  /\ pc[t] = "idx_rlock"
  /\ CanAcquire("r", vmu)
  /\ vmu' = Acquire("r", vmu, t)
  /\ pc' = [pc EXCEPT ![t] = "idx_read"]
  /\ UNCHANGED <<treeVars, vi, call, returned, dumped, loaded, prediction, given, top, attempt>>

\* n, ok := v.vi[s]
IndexRead(t) ==
  /\ pc[t] = "idx_read"
  /\ call' = [call EXCEPT ![t].n = vi[call[t].s], ![t].ok = (vi[call[t].s] # NoIdx)]
  /\ pc' = [pc EXCEPT ![t] = "idx_runlock"]
  /\ UNCHANGED <<treeVars, vi, vmu, returned, dumped, loaded, prediction, given, top, attempt>>

\* v.mu.RUnlock(); if ok { return n }
IndexRUnlock(t) ==
  /\ pc[t] = "idx_runlock"
  /\ vmu' = Release("r", vmu, t)
  /\ IF call[t].ok
     THEN /\ pc' = [pc EXCEPT ![t] = "idle"]
          /\ returned' = returned \cup {<<call[t].s, call[t].n>>}
     ELSE /\ pc' = [pc EXCEPT ![t] = "idx_lock"]
          /\ returned' = returned
  /\ UNCHANGED <<treeVars, vi, call, dumped, loaded, prediction, given, top, attempt>>

\* v.mu.Lock()
IndexLock(t) ==
  /\ pc[t] = "idx_lock"
  /\ CanAcquire("w", vmu)
  /\ vmu' = Acquire("w", vmu, t)
  /\ pc' = [pc EXCEPT ![t] = "idx_insert"]
  /\ UNCHANGED <<treeVars, vi, call, returned, dumped, loaded, prediction, given, top, attempt>>

\* if n, ok = v.vi[s]; !ok { n = len(v.vi); v.vi[s] = n }
IndexInsert(t) ==
  /\ pc[t] = "idx_insert"
  /\ \E r \in {InsertIndex(vi, call[t].s)} :
       /\ vi' = r.vi
       /\ call' = [call EXCEPT ![t].n = r.n]
  /\ pc' = [pc EXCEPT ![t] = "idx_unlock"]
  /\ UNCHANGED <<treeVars, vmu, returned, dumped, loaded, prediction, given, top, attempt>>

\* v.mu.Unlock(); return n
IndexUnlock(t) ==
  /\ pc[t] = "idx_unlock"
  /\ vmu' = Release("w", vmu, t)
  /\ pc' = [pc EXCEPT ![t] = "idle"]
  /\ returned' = returned \cup {<<call[t].s, call[t].n>>}
  /\ UNCHANGED <<treeVars, vi, call, dumped, loaded, prediction, given, top, attempt>>

InitIdx ==
  /\ InitAux
  /\ impl = "ret" /\ asked = Config(1, 0, InfTarget, FALSE, 0)
  /\ conf = SetConfigOf(FALSE, asked, 0)
  /\ tree = InitTree /\ cycles = 0 /\ traces = << >> /\ failed = FALSE /\ ntrain = 0
  /\ last = NoCall /\ pc = [t \in Threads |-> "idle"]
  /\ arg = [t \in Threads |-> NoInstance] /\ mu = [writer |-> 0, readers |-> {}]
  /\ mid = NoMid /\ committed = InitTree /\ seen = [t \in Threads |-> NoSeen]
  /\ \E vals \in InitialValues : vi = NewAttributeValues(vals)

NextIdx ==
  \/ \E t \in Threads : \E s \in Levels : CallIndexOf(t, s)
  \/ \E t \in Threads : IndexRLock(t)
  \/ \E t \in Threads : IndexRead(t)
  \/ \E t \in Threads : IndexRUnlock(t)
  \/ \E t \in Threads : IndexLock(t)
  \/ \E t \in Threads : IndexInsert(t)
  \/ \E t \in Threads : IndexUnlock(t)

SpecIdx == InitIdx /\ [][NextIdx]_vars

\* ------------------------------------------------------------- properties
NoTrainRunning == \A w \in Threads : ~InTrain(w) /\ pc[w] # "train_lock"
FiniteTarget == conf.PruneMemTarget < InfTarget
RootWeight == TotalWeight(tree[Root].stats)

\* C1: no Predict is between its lock and unlock while a Train is between
\* its lock and unlock, and the tree a Predict reads is the tree as a whole
\* training step left it
TrainIsAtomicForPredict ==
  /\ \A t, u \in Threads : ~(InTrain(t) /\ InPredict(u))
  /\ \A u \in Threads : seen[u].op = "predict" => seen[u].whole

TrainWaitsForPredict ==
  \E t, u \in Threads :
    /\ impl = "ret" /\ pc[t] = "train_lock" /\ pc[u] = "predict_unlock"
    /\ seen[u].op = "predict" /\ committed # InitTree

\* C2: in either variant, while one thread is inside Predict and no Train is
\* running or waiting, a second thread that calls Predict gets the lock
PredictorsShareTheLock ==
  \A t, u \in Threads :
    (t # u /\ InPredict(t) /\ pc[u] = "predict_lock" /\ NoTrainRunning)
      => CanAcquire(PredictLockKind(impl), mu)

\* C3: DumpTo never reads the tree while a Train is between its lock and
\* unlock, and the root it encodes is the tree as a whole training step left it
DumpReadsWholeSteps ==
  /\ \A t, u \in Threads : ~(InDump(t) /\ InTrain(u))
  /\ \A t \in Threads : seen[t].op = "dump" => seen[t].whole

\* C4: with EnableTracing, a Train call whose split attempt got past the
\* sufficient-and-active test returns a Trace, and the Trace's Split flag
\* says whether the leaf was replaced
TracingReturnsTrace ==
  (conf.EnableTracing /\ last.op = "train" /\ last.reached)
    => (~last.trace.isNil /\ (last.trace.Split <=> last.promoted))

\* C5 as stated: with PrunePeriod > 0 and a finite target, after every
\* Train call the byte size of the tree is at most twice the target
ByteSizeAtMostTwiceTarget ==
  (conf.PrunePeriod > 0 /\ FiniteTarget /\ last.op = "train")
    => ByteSize(tree) <= 2 * conf.PruneMemTarget

\* C5 as amended: with PrunePeriod > 0 and a finite target, a pruning pass
\* that gets past its early return ends with its running size at most the
\* target or with no active leaf left
PrunePassReachesTarget ==
  (conf.PrunePeriod > 0 /\ FiniteTarget /\ last.op = "train" /\ last.ran)
    => (last.byteSize <= conf.PruneMemTarget \/ last.activeAfter = 0)

PrunePassStoppedAtTarget ==
  /\ impl = "ret" /\ conf.PrunePeriod > 0 /\ FiniteTarget
  /\ last.op = "train" /\ last.ran
  /\ last.byteSize <= conf.PruneMemTarget /\ last.activeAfter > 0
  /\ ByteSize(tree) > conf.PruneMemTarget

\* C6: in either variant, a pruning pass on a tree larger than the target
\* leaves at least one leaf inactive
PrunePassLeavesInactiveLeaf ==
  (last.op = "train" /\ last.ran /\ last.sizeBefore > conf.PruneMemTarget)
    => last.inactiveAfter > 0

TieBoundBelowThreshold ==
  /\ conf.TieThreshold > 0 /\ last.op = "train" /\ last.reached
  /\ BoundBelowTie(conf, [range |-> Range2], RootWeight)

\* C7 as stated: on a stream whose best two suggestions always tie, a
\* positive TieThreshold gets the split accepted once the Hoeffding bound
\* of an evaluation has fallen below it
TieSplitAccepted == TieBoundBelowThreshold => last.promoted

\* C7 as amended: on a stream whose best two suggestions always tie no
\* split is ever accepted, whatever TieThreshold is
TieNeverSplits == \A p \in Paths : ~IsSplit(tree[p])

\* C8: over a Train call, WeightOnLastEval of a leaf never decreases, whether
\* the call's pruning pass deactivates the leaf, re-activates it or passes it by
\* (Tree.Prune(isObsolete) puts a new leaf in the place of an obsolete one;
\* SetConfig and Predict replace no leaf and leave every node as it is)
WeightOnLastEvalNeverDecreases ==
  [][\A p \in Paths :
       (IsLeaf(tree[p]) /\ IsLeaf(tree'[p]))
         => \/ tree'[p].wle >= tree[p].wle
            \/ last'.op = "prune" /\ tree'[p] = newLeafNode(ZeroStats)]_vars

\* a pruning pass re-activated a leaf that had been evaluated before
EvaluatedLeafReactivated ==
  last.op = "train" /\ last.ran /\ last.reactivatedEvaluated

\* a pruning pass deactivated a leaf that had been evaluated before
EvaluatedLeafDeactivated ==
  last.op = "train" /\ last.ran /\ last.deactivatedEvaluated

\* C9: after every Train call, WeightOnLastEval of every leaf is at most the
\* total weight of its statistics
WeightOnLastEvalAtMostTotal ==
  \A p \in LeafPaths(tree) : tree[p].wle <= TotalWeight(tree[p].stats)

SplitTreeWithEvaluatedLeaf ==
  /\ last.op = "train"
  /\ \E r \in Paths : IsSplit(tree[r])
  /\ \E p \in LeafPaths(tree) : tree[p].wle > 0
  /\ \E q \in LeafPaths(tree) : tree[q].inactive

\* C10: Predict changes neither the tree, nor the cycle counter, nor the
\* value set of the nominal predictor
PredictChangesNothing ==
  [][(\E inst \in Instances : Predict(inst))
       => (tree' = tree /\ cycles' = cycles /\ vi' = vi)]_vars

\* C11: in every interleaving of IndexOf calls a returned index is the index
\* the set holds for that string, no string's index is ever changed, two
\* strings never share an index, and the indices are exactly 0..n-1
IndexOfAssignsOnce ==
  /\ [](/\ \A r \in returned : vi[r[1]] = r[2]
        /\ \A r, q \in returned : (r[1] = q[1]) <=> (r[2] = q[2])
        /\ {vi[s] : s \in {l \in Levels : vi[l] # NoIdx}} = 0 .. (LenValues(vi) - 1))
  /\ [][\A s \in Levels : vi[s] # NoIdx => vi'[s] = vi[s]]_vars

TwoInsertsRaced ==
  /\ \E t, u \in Threads :
       /\ t # u /\ pc[t] = "idx_unlock" /\ pc[u] = "idx_lock"
       /\ call[t].s = call[u].s
       /\ ~call[u].ok /\ vi[call[u].s] = call[t].n

SplitPaths == {p \in Paths : IsSplit(tree[p])}
BranchIndex(p, inst) == Branch(tree[p], vi, inst).index
ValueMissing(p, inst) ==
  IF tree[p].pred = "o" THEN inst.o \notin Levels ELSE inst.x \notin XVals

\* C12 as stated: at every split node the branch of an instance is -1 when
\* the predictor value is missing and otherwise lies in 0..arity-1, arity
\* being the number of children the node was promoted with; the numeric
\* condition gives 0 for v <= threshold and 1 otherwise
BranchWithinArity ==
  \A p \in SplitPaths : \A inst \in Instances :
    /\ ValueMissing(p, inst) => BranchIndex(p, inst) = 0 - 1
    /\ ~ValueMissing(p, inst) => BranchIndex(p, inst) \in 0 .. (tree[p].arity - 1)
    /\ (tree[p].pred = "x" /\ ~ValueMissing(p, inst))
         => BranchIndex(p, inst) = (IF inst.x <= tree[p].thr THEN 0 ELSE 1)

\* C12 as amended: the branch is -1 when the predictor value is missing;
\* the numeric condition gives 0 for v <= threshold and 1 otherwise; the
\* nominal condition gives the index the level has in the predictor's value
\* set once the call has looked it up, which lies in 0..Len-1 of that set
BranchWithinValueSet ==
  \A p \in SplitPaths : \A inst \in Instances :
    /\ ValueMissing(p, inst) <=> BranchIndex(p, inst) = 0 - 1
    /\ (tree[p].pred = "x" /\ ~ValueMissing(p, inst))
         => BranchIndex(p, inst) = (IF inst.x <= tree[p].thr THEN 0 ELSE 1)
    /\ (tree[p].pred = "o" /\ ~ValueMissing(p, inst))
         => LET after == Branch(tree[p], vi, inst).vi
            IN /\ BranchIndex(p, inst) = after[inst.o]
               /\ BranchIndex(p, inst) \in 0 .. (LenValues(after) - 1)
               /\ \A s \in Levels : vi[s] # NoIdx => after[s] = vi[s]

LevelSeenAfterPromotion ==
  \E p \in SplitPaths : \E inst \in Instances :
    /\ tree[p].pred = "o" /\ inst.o \in Levels /\ vi[inst.o] = NoIdx
    /\ BranchIndex(p, inst) >= tree[p].arity

\* C13: Load of a stream in which a split condition names a predictor the
\* stream's model does not have returns (nil, error)
LoadRejectsAbsentPredictor ==
  (/\ loaded.called
   /\ \E p \in SplitPaths : tree[p].pred \notin DecodeModel(dumped).preds)
    => (loaded.isNil /\ loaded.err)

\* C14: the tree Load returns from what DumpTo wrote has the same model and
\* the same root subtree (split conditions, children, leaf statistics), and
\* predicts every instance as the dumped tree does
RoundTripKeepsTree ==
  (loaded.called /\ DecodeModel(dumped).preds = Predictors)
    => /\ ~loaded.isNil /\ ~loaded.err
       /\ loaded.preds = Predictors /\ loaded.vi = vi /\ loaded.unresolved = {}
       /\ \A p \in Paths :
            /\ loaded.root[p].kind = tree[p].kind
            /\ IsSplit(tree[p]) =>
                 (loaded.root[p].pred = tree[p].pred /\ loaded.root[p].thr = tree[p].thr)
            /\ IsLeaf(tree[p]) => loaded.root[p].stats = tree[p].stats
       /\ \A inst \in Instances :
            PredictBody(loaded.root, loaded.vi, inst).pred = PredictBody(tree, vi, inst).pred

LoadedTwoLevelTree ==
  /\ loaded.called /\ DecodeModel(dumped).preds = Predictors /\ ~loaded.isNil
  /\ \E p, q \in SplitPaths : tree[p].pred = "o" /\ tree[q].pred = "x"
  /\ LenValues(vi) = 2

SameEntries(p, q) ==
  /\ Len(p) = Len(q)
  /\ \A e \in PredictedValues :
       Cardinality({i \in 1 .. Len(p) : p[i] = e}) = Cardinality({i \in 1 .. Len(q) : q[i] = e})

\* C15: Top returns an entry of the prediction whose votes are at least
\* those of every entry, and a missing value for an empty prediction; after
\* Rank or Top the prediction holds the same entries, by descending votes
TopHasMostVotes ==
  /\ top.op = "top" =>
       IF given = << >> THEN IsMissing(top.value)
       ELSE /\ \E i \in 1 .. Len(given) :
                 given[i].value = top.value /\ given[i].votes = top.votes
            /\ \A i \in 1 .. Len(given) : top.votes >= given[i].votes
  /\ top.op # "none" =>
       /\ SameEntries(prediction, given)
       /\ \A i, j \in 1 .. Len(prediction) :
            i < j => prediction[i].votes >= prediction[j].votes

TopRankedFirst ==
  /\ top.op = "top" /\ Len(given) = MaxPredLen
  /\ given[1].votes < top.votes /\ prediction # given

AttemptWeight == TotalWeight(attempt.leaf.stats)
AttemptGain ==
  Merit(attempt.splits[1])
    - (IF Len(attempt.splits) > 1 THEN Merit(attempt.splits[2]) ELSE 0)
\* the squared bound e^2 = R^2 ln(1/d) / (2w), with ln(1/d) = SplitConfLn / LnDen
AttemptBoundSq ==
  [num |-> attempt.splits[1].range * attempt.splits[1].range * attempt.conf.SplitConfLn,
   den |-> 2 * AttemptWeight * LnDen]

\* C16: for an active leaf with sufficient statistics the split attempt
\* promotes the leaf iff gain > 0 and (gain > e or e < tie_threshold), gain
\* being the best merit minus the runner-up's (0 without a runner-up)
SplitDecisionRule ==
  (attempt.op = "done" /\ ~attempt.leaf.inactive /\ IsSufficient(attempt.leaf.stats))
    => (attempt.split <=>
          /\ AttemptGain > 0
          /\ \/ AttemptGain * AttemptGain * AttemptBoundSq.den > AttemptBoundSq.num
             \/ /\ attempt.conf.TieThreshold > 0
                /\ AttemptBoundSq.num
                     < attempt.conf.TieThreshold * attempt.conf.TieThreshold * AttemptBoundSq.den)

SplitByTieThreshold ==
  /\ attempt.op = "done" /\ attempt.split /\ attempt.conf.TieThreshold > 0
  /\ AttemptGain * AttemptGain * AttemptBoundSq.den <= AttemptBoundSq.num

\* C17: a Train call promotes only a leaf that is active and has sufficient
\* statistics (at least two classes seen) when the split is attempted; an
\* inactive leaf stops being an inactive leaf only in a Train call whose
\* pruning pass ran, so a deactivated leaf is promoted only after a later
\* pruning pass reactivated it (Tree.Prune(isObsolete) can take the leaf out
\* of the tree: a new empty leaf then stands in its place)
OnlyActiveSufficientPromoted ==
  /\ [](last.promoted => ~last.leafInactive /\ last.leafSufficient)
  /\ [][\A p \in Paths :
          (IsLeaf(tree[p]) /\ tree[p].inactive
             /\ ~(IsLeaf(tree'[p]) /\ tree'[p].inactive))
            => \/ last'.ran
               \/ last'.op = "prune" /\ tree'[p] = newLeafNode(ZeroStats)]_vars

InactiveLeafEvaluated ==
  /\ last.op = "train" /\ last.evaluated /\ ~last.promoted
  /\ last.leafInactive /\ last.leafSufficient

PrunedLeafPromoted ==
  /\ last.op = "train" /\ last.promoted
  /\ \E p \in pruned : IsSplit(tree[p])

\* C18: a Train call that lands on a leaf makes a split attempt exactly
\* when the leaf's total weight minus its WeightOnLastEval (both taken after
\* Learn) is at least GracePeriod; an attempt that leaves the leaf in place
\* stores that weight as its WeightOnLastEval; a call that makes no attempt
\* leaves the WeightOnLastEval of every leaf as it was, and no Train call
\* changes the WeightOnLastEval of a leaf other than the one it lands on.
\* Hence between two consecutive split attempts on the same leaf at least
\* GracePeriod weight has been added
GracePeriodGatesAttempt ==
  /\ []((last.op = "train" /\ last.isLeaf)
          => (last.evaluated <=> last.weight - last.wleBefore >= conf.GracePeriod))
  /\ [][(last'.op = "train" /\ ntrain' = ntrain + 1 /\ last'.evaluated /\ ~last'.promoted)
          => tree'[last'.node].wle = last'.weight]_vars
  /\ [][(last'.op = "train" /\ ntrain' = ntrain + 1 /\ ~last'.evaluated)
          => \A p \in Paths : (IsLeaf(tree[p]) /\ IsLeaf(tree'[p]))
                                 => tree'[p].wle = tree[p].wle]_vars
  /\ [][(last'.op = "train" /\ ntrain' = ntrain + 1)
          => \A p \in Paths : (p # last'.node /\ IsLeaf(tree[p]) /\ IsLeaf(tree'[p]))
                                 => tree'[p].wle = tree[p].wle]_vars

AttemptHeldBack ==
  /\ last.op = "train" /\ last.isLeaf /\ ~last.evaluated
  /\ last.weight > last.wleBefore /\ last.wleBefore > 0

\* C19 as stated: a Train call that lands on a leaf gets to its pruning
\* step exactly when the PrunePeriod the tree was configured with is > 0 and
\* the cycle count, this call included, is a multiple of it; with
\* PrunePeriod = 0 no pruning is called and no Train call fails
PruningFollowsSchedule ==
  /\ ~failed
  /\ (last.op = "train" /\ last.isLeaf)
       => (last.due <=> (asked.PrunePeriod > 0 /\ cycles % asked.PrunePeriod = 0))
  /\ asked.PrunePeriod = 0 => ~last.called

\* the schedule is kept by part_000
ScheduleKeptByPart000 == impl = "ret" => PruningFollowsSchedule

\* a tree of tree.go configured with PrunePeriod = 0 whose Train call ran a
\* pruning pass
UnsetPeriodPruned ==
  impl = "chan" /\ asked.PrunePeriod = 0 /\ last.op = "train" /\ last.ran

\* C20: a Train call with an instance whose value is missing at a split node
\* on its path leaves every node of the tree as it was, does not count a
\* cycle, runs no pruning and does not fail
MissingBranchLeavesTree ==
  [][(last'.op = "train" /\ ntrain' = ntrain + 1 /\ last'.unknown)
       => /\ tree' = tree /\ cycles' = cycles
          /\ ~last'.due /\ ~last'.called /\ ~last'.ran /\ ~failed']_vars

MissingValueStoppedAtSplit ==
  /\ last.op = "train" /\ last.unknown /\ IsSplit(tree[Root])
  /\ \E p \in Paths : IsLeaf(tree[p]) /\ TotalWeight(tree[p].stats) > 0

\* the slot Train puts a split into: the root pointer when Filter gave no
\* parent, else the parent's child at the filtered branch index
SplitSlot == IF last.hasParent THEN Append(last.parent, last.index) ELSE Root
IsChildOf(p, q) == Len(p) = Len(q) + 1 /\ SubSeq(p, 1, Len(q)) = q

\* C21: when a Train call promotes a leaf, the slot the split goes into is
\* the one that held the leaf; afterwards that slot holds a split node with
\* the leaf's statistics, not the leaf, the slots below it (empty before)
\* hold nothing but fresh leaves, and every other node is as it was just
\* before the split was installed
SplitInstalledInLeafSlot ==
  (last.op = "train" /\ last.promoted)
    => /\ SplitSlot = last.node
       /\ IsLeaf(last.before[SplitSlot])
       /\ IsSplit(tree[SplitSlot])
       /\ tree[SplitSlot].stats = last.before[SplitSlot].stats
       /\ \A p \in Paths \ {SplitSlot} :
            IF IsChildOf(p, SplitSlot)
            THEN last.before[p] = NilNode /\ ~IsSplit(tree[p])
            ELSE tree[p] = last.before[p]

ChildLeafPromoted ==
  /\ last.op = "train" /\ last.promoted /\ last.hasParent
  /\ IsSplit(tree[Root]) /\ IsSplit(tree[SplitSlot]) /\ SplitSlot # Root

\* a leaf materialised by the call has seen one instance, which is not
\* sufficient: it is not promoted by the same call
FreshLeafNotPromoted == ~(last.promoted /\ last.fresh)

FiniteTargetPass == last.op = "train" /\ last.ran /\ conf.PruneMemTarget < InfTarget

\* C22: a pruning pass leaves a leaf reactivated only if the size with the
\* leaf's bytes added back is at most PruneMemTarget: a pass that found a
\* leaf inactive and left it active ends with a tree of at most the target
ReactivationWithinTarget ==
  (FiniteTargetPass /\ last.reactivated > 0) => last.sizeAfter <= conf.PruneMemTarget

\* the same for the passes of part_000 alone
ReactivationWithinTargetRet == impl = "ret" => ReactivationWithinTarget

NoConsumer == \A u \in Threads : pc[u] # "recv"
WaitsToSend(t) == pc[t] = "train_send" /\ mu.writer = t /\ Len(traces) = TracesCap

\* C23: in tree.go with EnableTracing set and no reader of Traces, no Train
\* call is ever left waiting at its send while it holds the exclusive lock
\* (so every Train completes and releases the lock)
TrainNeverWaitsHoldingLock ==
  (impl = "chan" /\ conf.EnableTracing /\ NoConsumer)
    => \A t \in Threads : ~WaitsToSend(t)

\* with no reader, a Train or Predict that was called does return
CallsReturnWithoutReader ==
  \A t \in Threads :
    (NoConsumer /\ pc[t] \in {"train_lock", "predict_lock"}) ~> (pc[t] = "idle")

IsInactivePrefix(flags) ==
  \E k \in 0 .. Len(flags) : \A i \in 1 .. Len(flags) : flags[i] <=> (i <= k)

\* C24: after a pruning pass of part_000 that got past its early return, the
\* inactive leaves are a prefix of the sorted leaf list: the leaves up to some
\* position are all inactive and the leaves after it are all active
InactiveLeavesArePrefix ==
  (impl = "ret" /\ last.op = "train" /\ last.ran) => IsInactivePrefix(last.flags)

\* a pass that found an inactive leaf behind an active one and left leaves of
\* both kinds
PassOverScatteredInactiveLeaves ==
  /\ impl = "ret" /\ last.op = "train" /\ last.ran
  /\ ~IsInactivePrefix(last.flagsBefore)
  /\ \E i, j \in 1 .. Len(last.flags) : last.flags[i] /\ ~last.flags[j]
====
